---- MODULE Spec2Model ----
(***************************************************************************)
(* Model of the volleyball match recorder: the GameView interaction state  *)
(* machine (src/components/SetupView.tsx, second component of the file),   *)
(* the Court trajectory capture (src/components/Court.tsx and its earlier  *)
(* revision src/unnamed/part_000) and the rotation / score / serve ledger. *)
(*                                                                         *)
(* Encoding.  Rotation slots are the object keys "1".."6" and the Libero   *)
(* marker is "L"; a null string-valued field is "null".  A logical court   *)
(* point is a pair <<x, y>> in HALF logical units (7.5 is 15), a stored    *)
(* Coordinate is a pair in NINTHS of a percent (100% is 900), and a null   *)
(* point, coordinate or record is the empty tuple <<>>; an optional record *)
(* that is present is the one-element tuple <<r>>.                         *)
(***************************************************************************)
EXTENDS Integers, Sequences, FiniteSets, TLC

\* ------------------------------------------------------------------ bounds
MaxOps == 3
MaxFlowLogs == 1
MaxOrphans == 1
MaxUnlogged == 1
MaxRotations == 6
MaxRotLogs == 1
MaxPresses == 1
MaxLineupOps == 2

\* --------------------------------------------------------------- constants
NULL == "null"
UNDEFINED == "undefined"
NoPoint == <<>>
NoRec == <<>>

Sides == {"me", "op"}
Slots == {"1", "2", "3", "4", "5", "6"}
LIBERO == "L"
Positions == Slots \cup {LIBERO}

SERVE == "SERVE"
ATTACK == "ATTACK"
BLOCK == "BLOCK"
DIG == "DIG"
SET == "SET"
RECEIVE == "RECEIVE"
ActionType == {SERVE, ATTACK, BLOCK, DIG, SET, RECEIVE}

POINT == "POINT"
ERROR == "ERROR"
NORMAL == "NORMAL"
ResultType == {POINT, ERROR, NORMAL}

InteractionState == {"IDLE", "PLAYER_SELECTED", "DRAWING", "RESULT_PENDING"}

HIT_RADIUS_SQ == 9

\* ------------------------------------------------------- input alphabets
\* Sidebar items the operator presses, action buttons used, pointer
\* positions delivered by the drawable surface, numbers typed in the
\* substitution field, and the two revisions of the Court component.
SidebarItems == {<<"me", "1">>, <<"op", LIBERO>>}
LedgerActions == {ATTACK}
FlowActions == {SERVE, ATTACK}
PFar == <<24, 6>>
LedgerPts == {PFar}
\* The lower right corner of the viewBox "-1 -0.5 20 10": x 19, y 9.5, in
\* the out-of-bounds margin.
PMargin == <<38, 19>>
FlowPts == {PMargin}
\* Around the anchor <<6, 15>> of home slot 1: inside its radius, inside
\* the radius of both <<6, 15>> and <<9, 15>> and nearer to the former,
\* exactly on its radius, far.
PNearStart == <<4, 15>>
PNearBoth == <<7, 15>>
POnRadius == <<9, 15>>
CourtPts == {PNearStart, PNearBoth, POnRadius, PFar}
SubNumbers == {"9"}
CourtRevisions == {"Court.tsx", "part_000"}
\* A save slot holding content of a kind; game is <<g>> for the JSON text
\* of a saved game g and <<>> for every other kind.
Stored(kind) == [kind |-> kind, game |-> <<>>]
SaveKeys == {"volleyscout_save_a", "volleyscout_save_b"}
myName == "Home"
opName == "Guest"
currentSet == 1

\* ------------------------------------------------------------------- state
VARIABLES
  state, activeSide, selectedPos, selectedAction, startCoord, endCoord,
  showSubModal, subNumber, subTarget,
  longPressTimer, isLongPress, orphanTimers,
  startPos, endPos, dragMode, courtRev,
  initialMyLineup, initialOpLineup, initialMyLibero, initialOpLibero,
  myScore, opScore, servingTeam, logs,
  lastCall, afterPrevEvent, setup, unloggedOps, held, progress, stage, completedBy,
  gest, lastPt, fnArg, fnRes, form, started, storage, loaded, notice, picked

flowVars == <<state, activeSide, selectedPos, selectedAction, startCoord, endCoord>>
\* History of the capture: how far it got, what reported its trajectory and
\* the identifier of the player that was selected.
traceVars == <<progress, stage, completedBy, picked>>
subVars == <<showSubModal, subNumber, subTarget>>
pressVars == <<longPressTimer, isLongPress, orphanTimers>>
courtVars == <<startPos, endPos, dragMode>>
snapVars == <<initialMyLineup, initialOpLineup, initialMyLibero, initialOpLibero,
              myScore, opScore, servingTeam, logs>>
\* History of the inputs: per sidebar item the press gestures begun and
\* ended on it and what they led to, and the last pointer-down position.
\* A function of the program applied on its own: its argument and, once
\* applied, its result.
fnVars == <<fnArg, fnRes>>
\* The setup form (SetupView) and the arguments of its onStart call.
formVars == <<form, started>>
\* The save slots of the local storage, the arguments of the last
\* onLoadGame call and the notification shown to the operator.
storeVars == <<storage, loaded, notice>>
asideVars == <<fnVars, formVars, storeVars>>
inputVars == <<gest, lastPt, asideVars>>
vars == <<flowVars, subVars, pressVars, courtVars, courtRev, snapVars,
          lastCall, afterPrevEvent, setup, unloggedOps, held, progress, stage,
          completedBy, picked, inputVars>>

\* ----------------------------------------------------------- pure helpers
Other(side) == IF side = "me" THEN "op" ELSE "me"

\* Variant: slots 1 and 6 are filled the wrong way round.
getRotatedLineupSwapped(lineup) ==
  [p \in Slots |->
     CASE p = "1" -> lineup["1"]
       [] p = "6" -> lineup["2"]
       [] p = "5" -> lineup["6"]
       [] p = "4" -> lineup["5"]
       [] p = "3" -> lineup["4"]
       [] p = "2" -> lineup["3"]]

getRotatedLineup(lineup) ==
  [p \in Slots |->
     CASE p = "1" -> lineup["2"]
       [] p = "6" -> lineup["1"]
       [] p = "5" -> lineup["6"]
       [] p = "4" -> lineup["5"]
       [] p = "3" -> lineup["4"]
       [] p = "2" -> lineup["3"]]

Clamp(v) == IF v < 0 THEN 0 ELSE IF v > 900 THEN 900 ELSE v

\* Variant: the percentages are clamped to [0, 100].
normalizeClamped(pt) == <<Clamp(pt[1] * 25), Clamp(pt[2] * 50)>>

normalize(pt) == <<pt[1] * 25, pt[2] * 50>>

serveX(rev, side) ==
  IF rev = "Court.tsx" THEN (IF side = "me" THEN -1 ELSE 37)
  ELSE (IF side = "me" THEN -4 ELSE 40)

\* Variant: the serve offset is applied whatever ignoreAction says.
getPositionCenterAlwaysOffset(rev, side, pos, ignoreAction, action) ==
  LET posNum == IF pos = LIBERO THEN "6" ELSE pos
      p == IF side = "me"
           THEN CASE posNum = "4" -> <<15, 3>>
                  [] posNum = "3" -> <<15, 9>>
                  [] posNum = "2" -> <<15, 15>>
                  [] posNum = "5" -> <<6, 3>>
                  [] posNum = "6" -> <<6, 9>>
                  [] posNum = "1" -> <<6, 15>>
                  [] OTHER -> <<18, 9>>
           ELSE CASE posNum = "2" -> <<21, 3>>
                  [] posNum = "3" -> <<21, 9>>
                  [] posNum = "4" -> <<21, 15>>
                  [] posNum = "1" -> <<30, 3>>
                  [] posNum = "6" -> <<30, 9>>
                  [] posNum = "5" -> <<30, 15>>
                  [] OTHER -> <<18, 9>>
  IN IF action = SERVE THEN <<serveX(rev, side), p[2]>> ELSE p

getPositionCenter(rev, side, pos, ignoreAction, action) ==
  LET posNum == IF pos = LIBERO THEN "6" ELSE pos
      p == IF side = "me"
           THEN CASE posNum = "4" -> <<15, 3>>
                  [] posNum = "3" -> <<15, 9>>
                  [] posNum = "2" -> <<15, 15>>
                  [] posNum = "5" -> <<6, 3>>
                  [] posNum = "6" -> <<6, 9>>
                  [] posNum = "1" -> <<6, 15>>
                  [] OTHER -> <<18, 9>>
           ELSE CASE posNum = "2" -> <<21, 3>>
                  [] posNum = "3" -> <<21, 9>>
                  [] posNum = "4" -> <<21, 15>>
                  [] posNum = "1" -> <<30, 3>>
                  [] posNum = "6" -> <<30, 9>>
                  [] posNum = "5" -> <<30, 15>>
                  [] OTHER -> <<18, 9>>
  IN IF ~ignoreAction /\ action = SERVE THEN <<serveX(rev, side), p[2]>> ELSE p

getDistanceSq(p1, p2) ==
  (p1[1] - p2[1]) * (p1[1] - p2[1]) + (p1[2] - p2[2]) * (p1[2] - p2[2])

Lineup(side) == IF side = "me" THEN initialMyLineup ELSE initialOpLineup
Libero(side) == IF side = "me" THEN initialMyLibero ELSE initialOpLibero

\* ------------------------------------------------------------------- Init
ScenarioLineup == [p \in Slots |->
  CASE p = "1" -> "5" [] p = "2" -> "4" [] p = "3" -> "3"
    [] p = "4" -> "2" [] p = "5" -> "7" [] p = "6" -> "6"]
GuestLineup == [p \in Slots |->
  CASE p = "1" -> "11" [] p = "2" -> "12" [] p = "3" -> "13"
    [] p = "4" -> "14" [] p = "5" -> "15" [] p = "6" -> "16"]

NoGesture == [downs |-> 0, ups |-> 0, selects |-> 0, subs |-> 0, early |-> 0]
NoCall == [op |-> "none", progress |-> 0, stage |-> 0, completedBy |-> "none"]

\* The GameView as mounted after setup, for a choice of Court revision,
\* first server and home lineup.
GameMount(revisions, firstServers, myLineups) ==
  /\ state = "IDLE" /\ activeSide = "me" /\ selectedPos = NULL
  /\ selectedAction = NULL /\ startCoord = NoPoint /\ endCoord = NoPoint
  /\ showSubModal = FALSE /\ subNumber = "" /\ subTarget = NoRec
  /\ longPressTimer = NoRec /\ isLongPress = FALSE /\ orphanTimers = <<>>
  /\ startPos = NoPoint /\ endPos = NoPoint /\ dragMode = NULL
  /\ courtRev \in revisions
  /\ initialMyLineup \in myLineups /\ initialOpLineup = GuestLineup
  /\ initialMyLibero = "99" /\ initialOpLibero = "88"
  /\ myScore = 0 /\ opScore = 0 /\ servingTeam \in firstServers /\ logs = <<>>
  /\ lastCall = NoCall
  /\ afterPrevEvent = [me |-> initialMyLineup, op |-> initialOpLineup]
  /\ setup = [me |-> initialMyLineup, op |-> initialOpLineup,
              myLibero |-> initialMyLibero, opLibero |-> initialOpLibero,
              firstServe |-> servingTeam]
  /\ unloggedOps = [me |-> 0, op |-> 0] /\ held = {}
  /\ progress = 0 /\ stage = 0 /\ completedBy = "none" /\ picked = NULL
  /\ gest = [i \in SidebarItems |-> NoGesture] /\ lastPt = NoPoint
  /\ loaded = NoRec /\ notice = NULL

GameInit(revisions, firstServers, myLineups) ==
  /\ GameMount(revisions, firstServers, myLineups)
  /\ fnArg = NoRec /\ fnRes = NoRec
  /\ form = NoRec /\ started = NoRec
  /\ storage = [k \in SaveKeys |-> Stored("missing")]

Init == GameInit({"Court.tsx"}, {"me"}, {ScenarioLineup})

Max(a, b) == IF a > b THEN a ELSE b
Unlogged == unloggedOps.me + unloggedOps.op

\* ------------------------------------------- owner of the MatchSnapshot
\* onGameAction(newLog, scoreUpdate, lineupUpdate, servingTeamUpdate): the
\* orchestrating layer applies each named delta that is present.
ApplyGameAction(newLog, scoreUpdate, lineupUpdate, servingTeamUpdate) ==
  /\ logs' = IF newLog # NoRec THEN Append(logs, newLog[1]) ELSE logs
  /\ myScore' = IF scoreUpdate # NoRec THEN myScore + scoreUpdate[1].myDelta ELSE myScore
  /\ opScore' = IF scoreUpdate # NoRec THEN opScore + scoreUpdate[1].opDelta ELSE opScore
  /\ initialMyLineup' = IF lineupUpdate # NoRec /\ lineupUpdate[1].isMyTeam
                        THEN lineupUpdate[1].newLineup ELSE initialMyLineup
  /\ initialOpLineup' = IF lineupUpdate # NoRec /\ ~lineupUpdate[1].isMyTeam
                        THEN lineupUpdate[1].newLineup ELSE initialOpLineup
  /\ initialMyLibero' = IF /\ lineupUpdate # NoRec /\ lineupUpdate[1].isMyTeam
                           /\ lineupUpdate[1].newLibero # UNDEFINED
                        THEN lineupUpdate[1].newLibero ELSE initialMyLibero
  /\ initialOpLibero' = IF /\ lineupUpdate # NoRec /\ ~lineupUpdate[1].isMyTeam
                           /\ lineupUpdate[1].newLibero # UNDEFINED
                        THEN lineupUpdate[1].newLibero ELSE initialOpLibero
  /\ servingTeam' = IF servingTeamUpdate # NULL THEN servingTeamUpdate ELSE servingTeam

\* History: the handler that ran in the last step, the arguments of the
\* onGameAction call it made (if any) and the snapshot the call was made in.
RecordCall(op, side, arg, winner, newLog, scoreUpdate, lineupUpdate, servingTeamUpdate) ==
  /\ lastCall' = [op |-> op, progress |-> progress, stage |-> stage,
                  completedBy |-> completedBy, side |-> side, arg |-> arg, winner |-> winner,
                  newLog |-> newLog, scoreUpdate |-> scoreUpdate,
                  lineupUpdate |-> lineupUpdate, servingTeamUpdate |-> servingTeamUpdate,
                  preServing |-> servingTeam,
                  preLineup |-> [me |-> initialMyLineup, op |-> initialOpLineup],
                  preLibero |-> [me |-> initialMyLibero, op |-> initialOpLibero],
                  preScore |-> [me |-> myScore, op |-> opScore],
                  prevEvent |-> afterPrevEvent]
  /\ afterPrevEvent' = IF newLog # NoRec
                       THEN [me |-> initialMyLineup', op |-> initialOpLineup']
                       ELSE afterPrevEvent

onGameAction(op, side, arg, winner, newLog, scoreUpdate, lineupUpdate, servingTeamUpdate) ==
  /\ ApplyGameAction(newLog, scoreUpdate, lineupUpdate, servingTeamUpdate)
  /\ RecordCall(op, side, arg, winner, newLog, scoreUpdate, lineupUpdate, servingTeamUpdate)

NoGameAction(op) ==
  /\ lastCall' = IF op \in {"Cancel", "handleResult"}
                 THEN [op |-> op, progress |-> progress, stage |-> stage,
                       completedBy |-> completedBy]
                 ELSE NoCall
  /\ UNCHANGED <<snapVars, afterPrevEvent>>

\* Variant: the start point is seeded without the serve offset.
AutoStartIgnoresServe ==
  IF <<state', activeSide', selectedPos', selectedAction'>>
       = <<state, activeSide, selectedPos, selectedAction>>
  THEN UNCHANGED <<startPos, endPos>>
  ELSE IF state' = "DRAWING" /\ selectedPos' # NULL
  THEN /\ startPos' = getPositionCenter(courtRev, activeSide', selectedPos', TRUE, selectedAction')
       /\ endPos' = endPos
  ELSE IF state' = "IDLE"
  THEN startPos' = NoPoint /\ endPos' = NoPoint
  ELSE UNCHANGED <<startPos, endPos>>

\* ------------------------------------------------ Court: auto-start effect
\* Runs after a render in which state, activeSide, selectedPos or action
\* changed.
AutoStart ==
  IF <<state', activeSide', selectedPos', selectedAction'>>
       = <<state, activeSide, selectedPos, selectedAction>>
  THEN UNCHANGED <<startPos, endPos>>
  ELSE IF state' = "DRAWING" /\ selectedPos' # NULL
  THEN /\ startPos' = getPositionCenter(courtRev, activeSide', selectedPos', FALSE, selectedAction')
       /\ endPos' = endPos
  ELSE IF state' = "IDLE"
  THEN startPos' = NoPoint /\ endPos' = NoPoint
  ELSE UNCHANGED <<startPos, endPos>>

\* ------------------------------------------------------ GameView handlers
\* Variant: the interaction state is not reset.
resetFlowKeepsState ==
  /\ state' = state /\ selectedPos' = NULL /\ selectedAction' = NULL
  /\ startCoord' = NoPoint /\ endCoord' = NoPoint
  /\ activeSide' = activeSide
  /\ progress' = 0 /\ stage' = 0 /\ completedBy' = "none" /\ picked' = NULL

resetFlow ==
  /\ state' = "IDLE" /\ selectedPos' = NULL /\ selectedAction' = NULL
  /\ startCoord' = NoPoint /\ endCoord' = NoPoint
  /\ activeSide' = activeSide
  /\ progress' = 0 /\ stage' = 0 /\ completedBy' = "none" /\ picked' = NULL

handlePlayerSelect(side, pos) ==
  /\ activeSide' = side /\ selectedPos' = pos /\ state' = "PLAYER_SELECTED"
  /\ selectedAction' = NULL /\ startCoord' = NoPoint /\ endCoord' = NoPoint
  /\ progress' = Max(progress, 1) /\ stage' = 1 /\ completedBy' = "none"
  /\ picked' = IF pos = LIBERO
               THEN (IF side = "me" THEN initialMyLibero ELSE initialOpLibero)
               ELSE (IF side = "me" THEN initialMyLineup ELSE initialOpLineup)[pos]

\* Variant: only the end coordinate is stored.
handleDrawingCompleteEndOnly(start, end, by) ==
  /\ startCoord' = startCoord /\ endCoord' = end /\ state' = "RESULT_PENDING"
  /\ UNCHANGED <<activeSide, selectedPos, selectedAction>>
  /\ progress' = 3 /\ stage' = (IF stage = 2 THEN 3 ELSE stage) /\ completedBy' = by
  /\ picked' = picked

\* Variant: the completion drops back to IDLE.
handleDrawingCompleteResets(start, end, by) ==
  /\ startCoord' = start /\ endCoord' = end /\ state' = "IDLE"
  /\ UNCHANGED <<activeSide, selectedPos, selectedAction>>
  /\ progress' = 3 /\ stage' = (IF stage = 2 THEN 3 ELSE stage) /\ completedBy' = by
  /\ picked' = picked

\* Step 3: the Court reports a trajectory.
handleDrawingComplete(start, end, by) ==
  /\ startCoord' = start /\ endCoord' = end /\ state' = "RESULT_PENDING"
  /\ UNCHANGED <<activeSide, selectedPos, selectedAction>>
  /\ progress' = 3 /\ stage' = (IF stage = 2 THEN 3 ELSE stage) /\ completedBy' = by
  /\ picked' = picked

\* Outcome resolution of handleResult: the deltas it passes to onGameAction.
\* Variant: an Error credits the acting side.
resultScoreUpdateErrorToActor(result, isMyTeam) ==
  IF result \in {POINT, ERROR}
  THEN <<[myDelta |-> IF isMyTeam THEN 1 ELSE 0, opDelta |-> IF ~isMyTeam THEN 1 ELSE 0]>>
  ELSE NoRec

\* scoreUpdate of either scoring branch, null for a Normal outcome.
resultScoreUpdate(result, isMyTeam) ==
  IF result = POINT
  THEN <<[myDelta |-> IF isMyTeam THEN 1 ELSE 0, opDelta |-> IF ~isMyTeam THEN 1 ELSE 0]>>
  ELSE IF result = ERROR
  THEN <<[myDelta |-> IF ~isMyTeam THEN 1 ELSE 0, opDelta |-> IF isMyTeam THEN 1 ELSE 0]>>
  ELSE NoRec

\* Variant: the acting side is taken as the point winner of an Error.
resultPointWinnerAlwaysActor(result, isMyTeam) ==
  IF result \in {POINT, ERROR} THEN (IF isMyTeam THEN "me" ELSE "op") ELSE NULL

\* pointWinner of either scoring branch.
resultPointWinner(result, isMyTeam) ==
  IF result = POINT THEN (IF isMyTeam THEN "me" ELSE "op")
  ELSE IF result = ERROR THEN (IF ~isMyTeam THEN "me" ELSE "op")
  ELSE NULL

\* Variant: the winner's lineup rotates on every point.
resultServeChangeAlwaysRotates(pointWinner) ==
  LET lineToRotate == IF pointWinner = "me" THEN initialMyLineup ELSE initialOpLineup
  IN [newServingTeam |-> IF pointWinner # servingTeam THEN pointWinner ELSE NULL,
      lineupUpdate |-> <<[isMyTeam |-> pointWinner = "me",
                          newLineup |-> getRotatedLineup(lineToRotate),
                          newLibero |-> UNDEFINED]>>]

\* The serve-change block, written out identically in both scoring branches.
resultServeChange(pointWinner) ==
  IF pointWinner # servingTeam
  THEN LET lineToRotate == IF pointWinner = "me" THEN initialMyLineup ELSE initialOpLineup
       IN [newServingTeam |-> pointWinner,
           lineupUpdate |-> <<[isMyTeam |-> pointWinner = "me",
                               newLineup |-> getRotatedLineup(lineToRotate),
                               newLibero |-> UNDEFINED]>>]
  ELSE [newServingTeam |-> NULL, lineupUpdate |-> NoRec]

resultDeltas(result, isMyTeam) ==
  LET pointWinner == resultPointWinner(result, isMyTeam)
      change == IF pointWinner # NULL THEN resultServeChange(pointWinner)
                ELSE [newServingTeam |-> NULL, lineupUpdate |-> NoRec]
  IN [scoreUpdate |-> resultScoreUpdate(result, isMyTeam),
      newServingTeam |-> change.newServingTeam,
      lineupUpdate |-> change.lineupUpdate,
      pointWinner |-> pointWinner]

\* Variant: the entry keeps the serving team of before the point.
loggedServingTeamStale(newServingTeam) == servingTeam

\* The serving-team snapshot written on a log entry.
loggedServingTeam(newServingTeam) ==
  IF newServingTeam # NULL THEN newServingTeam ELSE servingTeam

\* Variant: the entry is given the score of before the point.
resultNextScoreStale(scoreUpdate) ==
  [nextMyScore |-> myScore, nextOpScore |-> opScore]

\* nextMyScore, nextOpScore: the score snapshot written on a capture entry.
resultNextScore(scoreUpdate) ==
  [nextMyScore |-> IF scoreUpdate # NoRec THEN myScore + scoreUpdate[1].myDelta ELSE myScore,
   nextOpScore |-> IF scoreUpdate # NoRec THEN opScore + scoreUpdate[1].opDelta ELSE opScore]

\* Variant: no guard.
rejectsOutcomeNever == FALSE

\* Variant: the guard forgets the action.
rejectsOutcomePosOnly == selectedPos = NULL

\* The guard of handleResult: no acting context.
rejectsOutcome == selectedPos = NULL \/ selectedAction = NULL

\* Step 4: an outcome button (enabled only in RESULT_PENDING).
handleResult(result) ==
  /\ state = "RESULT_PENDING"
  /\ UNCHANGED <<subVars, pressVars, dragMode, courtRev, setup, unloggedOps>>
  /\ IF rejectsOutcome
     THEN /\ UNCHANGED <<flowVars, traceVars, startPos, endPos>>
          /\ NoGameAction("handleResult")
     ELSE /\ LET isMyTeam == activeSide = "me"
                 lineup == IF isMyTeam THEN initialMyLineup ELSE initialOpLineup
                 playerNumber == IF selectedPos = LIBERO
                                 THEN (IF isMyTeam THEN initialMyLibero ELSE initialOpLibero)
                                 ELSE lineup[selectedPos]
                 d == resultDeltas(result, isMyTeam)
                 next == resultNextScore(d.scoreUpdate)
                 newLog == [setNumber |-> currentSet,
                            myScore |-> next.nextMyScore, opScore |-> next.nextOpScore,
                            playerNumber |-> playerNumber, position |-> selectedPos,
                            action |-> selectedAction, quality |-> NORMAL, result |-> result,
                            startCoord |-> startCoord, endCoord |-> endCoord,
                            note |-> IF isMyTeam THEN myName ELSE opName,
                            servingTeam |-> loggedServingTeam(d.newServingTeam)]
             IN onGameAction("handleResult", activeSide, result, d.pointWinner,
                             <<newLog>>, d.scoreUpdate, d.lineupUpdate, d.newServingTeam)
          /\ resetFlow
          /\ AutoStart

\* Variant: the rotation also hands the Libero shirt to the new server.
handleRotationMovesLibero(isMyTeam) ==
  /\ unloggedOps' = [unloggedOps EXCEPT ![IF isMyTeam THEN "me" ELSE "op"] = @ + 1]
  /\ LET currentLineup == IF isMyTeam THEN initialMyLineup ELSE initialOpLineup
         newLineup == getRotatedLineup(currentLineup)
     IN onGameAction("handleRotation", IF isMyTeam THEN "me" ELSE "op", 0, NULL,
                     NoRec, NoRec,
                     <<[isMyTeam |-> isMyTeam, newLineup |-> newLineup,
                        newLibero |-> newLineup["1"]]>>,
                     NULL)
  /\ UNCHANGED <<flowVars, traceVars, subVars, pressVars, courtVars, courtRev, setup>>

\* Header buttons: manual rotation of one team.
handleRotation(isMyTeam) ==
  /\ unloggedOps' = [unloggedOps EXCEPT ![IF isMyTeam THEN "me" ELSE "op"] = @ + 1]
  /\ LET currentLineup == IF isMyTeam THEN initialMyLineup ELSE initialOpLineup
         newLineup == getRotatedLineup(currentLineup)
     IN onGameAction("handleRotation", IF isMyTeam THEN "me" ELSE "op", 0, NULL,
                     NoRec, NoRec,
                     <<[isMyTeam |-> isMyTeam, newLineup |-> newLineup, newLibero |-> UNDEFINED]>>,
                     NULL)
  /\ UNCHANGED <<flowVars, traceVars, subVars, pressVars, courtVars, courtRev, setup>>

\* Variant: the serve is handed over without rotating.
adjustDeltasNoRotation(isMyTeam, delta) ==
  LET pointWinner == IF isMyTeam THEN "me" ELSE "op"
      transfers == delta > 0 /\ pointWinner # servingTeam
  IN [scoreUpdate |-> <<[myDelta |-> IF isMyTeam THEN delta ELSE 0,
                         opDelta |-> IF ~isMyTeam THEN delta ELSE 0]>>,
      newServingTeam |-> IF transfers THEN pointWinner ELSE NULL,
      lineupUpdate |-> NoRec,
      pointWinner |-> IF delta > 0 THEN pointWinner ELSE NULL]

\* Manual score adjustment: the deltas it passes to onGameAction.
adjustDeltas(isMyTeam, delta) ==
  LET pointWinner == IF isMyTeam THEN "me" ELSE "op"
      transfers == delta > 0 /\ pointWinner # servingTeam
      lineToRotate == IF pointWinner = "me" THEN initialMyLineup ELSE initialOpLineup
  IN [scoreUpdate |-> <<[myDelta |-> IF isMyTeam THEN delta ELSE 0,
                         opDelta |-> IF ~isMyTeam THEN delta ELSE 0]>>,
      newServingTeam |-> IF transfers THEN pointWinner ELSE NULL,
      lineupUpdate |-> IF transfers
                       THEN <<[isMyTeam |-> pointWinner = "me",
                               newLineup |-> getRotatedLineup(lineToRotate),
                               newLibero |-> UNDEFINED]>>
                       ELSE NoRec,
      pointWinner |-> IF delta > 0 THEN pointWinner ELSE NULL]

\* Header buttons: manual score adjustment by +1 or -1.
handleScoreAdjust(isMyTeam, delta) ==
  /\ LET d == adjustDeltas(isMyTeam, delta)
         newLog == [setNumber |-> currentSet,
                    myScore |-> IF isMyTeam THEN myScore + delta ELSE myScore,
                    opScore |-> IF ~isMyTeam THEN opScore + delta ELSE opScore,
                    playerNumber |-> "", position |-> "1",
                    action |-> ATTACK, quality |-> NORMAL,
                    result |-> IF delta > 0 THEN POINT ELSE NORMAL,
                    startCoord |-> NoPoint, endCoord |-> NoPoint,
                    note |-> IF delta > 0 THEN "Manual Adjust +1" ELSE "Manual Adjust -1",
                    servingTeam |-> loggedServingTeam(d.newServingTeam)]
     IN onGameAction("handleScoreAdjust", IF isMyTeam THEN "me" ELSE "op", delta, d.pointWinner,
                     <<newLog>>, d.scoreUpdate, d.lineupUpdate, d.newServingTeam)
  /\ UNCHANGED <<flowVars, traceVars, subVars, pressVars, courtVars, courtRev, setup, unloggedOps>>

\* Step 1: sidebar press gesture.  handlePlayerDown arms the 1.5 s timer
\* and overwrites the ref; a timer still pending under the old ref keeps
\* running (clearTimeout can no longer reach it).
handlePlayerDown(side, pos) ==
  /\ isLongPress' = FALSE
  /\ longPressTimer' = <<[side |-> side, pos |-> pos, fired |-> FALSE]>>
  /\ IF longPressTimer # NoRec /\ ~longPressTimer[1].fired
     THEN /\ Len(orphanTimers) < MaxOrphans
          /\ orphanTimers' = Append(orphanTimers,
                                    [side |-> longPressTimer[1].side, pos |-> longPressTimer[1].pos])
     ELSE orphanTimers' = orphanTimers
  /\ NoGameAction("handlePlayerDown")
  /\ UNCHANGED <<flowVars, traceVars, subVars, courtVars, courtRev, setup, unloggedOps>>

\* The timer callback of handlePlayerDown.
longPressFire(target) ==
  /\ isLongPress' = TRUE
  /\ subTarget' = <<[side |-> target.side, pos |-> target.pos]>>
  /\ subNumber' = ""
  /\ showSubModal' = TRUE

TimerFire ==
  /\ longPressTimer # NoRec /\ ~longPressTimer[1].fired
  /\ longPressFire(longPressTimer[1])
  /\ longPressTimer' = <<[longPressTimer[1] EXCEPT !.fired = TRUE]>>
  /\ NoGameAction("TimerFire")
  /\ UNCHANGED <<flowVars, traceVars, orphanTimers, courtVars, courtRev, setup, unloggedOps>>

\* The callback of a timer that handlePlayerDown armed and a later
\* handlePlayerDown dropped from the ref.
OrphanTimerFire ==
  /\ orphanTimers # <<>>
  /\ longPressFire(Head(orphanTimers))
  /\ orphanTimers' = Tail(orphanTimers)
  /\ longPressTimer' = longPressTimer
  /\ NoGameAction("TimerFire")
  /\ UNCHANGED <<flowVars, traceVars, courtVars, courtRev, setup, unloggedOps>>

handlePlayerUp(side, pos) ==
  /\ longPressTimer' = NoRec
  /\ UNCHANGED <<isLongPress, orphanTimers>>
  /\ IF ~isLongPress
     THEN handlePlayerSelect(side, pos) /\ AutoStart
     ELSE UNCHANGED <<flowVars, traceVars, startPos, endPos>>
  /\ NoGameAction("handlePlayerUp")
  /\ UNCHANGED <<subVars, dragMode, courtRev, setup, unloggedOps>>

\* Step 2: an action button of the action modal (rendered in PLAYER_SELECTED).
handleActionSelect(action) ==
  /\ state = "PLAYER_SELECTED"
  /\ selectedAction' = action /\ state' = "DRAWING"
  /\ UNCHANGED <<activeSide, selectedPos, startCoord, endCoord>>
  /\ progress' = Max(progress, 2) /\ stage' = (IF stage = 1 THEN 2 ELSE stage)
  /\ completedBy' = completedBy /\ picked' = picked
  /\ AutoStart
  /\ NoGameAction("handleActionSelect")
  /\ UNCHANGED <<subVars, pressVars, dragMode, courtRev, setup, unloggedOps>>

\* Cancel button / backdrop of the action modal.
Cancel ==
  /\ state = "PLAYER_SELECTED"
  /\ resetFlow
  /\ AutoStart
  /\ NoGameAction("Cancel")
  /\ UNCHANGED <<subVars, pressVars, dragMode, courtRev, setup, unloggedOps>>

\* ---------------------------------------------------- substitution modal
Trim(s) == IF s = " " THEN "" ELSE s

TypeSubNumber(v) ==
  /\ showSubModal /\ subTarget # NoRec
  /\ subNumber' = v
  /\ UNCHANGED <<showSubModal, subTarget>>
  /\ NoGameAction("TypeSubNumber")
  /\ UNCHANGED <<flowVars, traceVars, pressVars, courtVars, courtRev, setup, unloggedOps>>

SubCancel ==
  /\ showSubModal /\ subTarget # NoRec
  /\ showSubModal' = FALSE
  /\ UNCHANGED <<subNumber, subTarget>>
  /\ NoGameAction("SubCancel")
  /\ UNCHANGED <<flowVars, traceVars, pressVars, courtVars, courtRev, setup, unloggedOps>>

\* Variant: a blank entry is confirmed like a number.
handleSubConfirmBlank ==
  /\ showSubModal /\ subTarget # NoRec
  /\ unloggedOps' = [unloggedOps EXCEPT ![subTarget[1].side] = @ + 1]
  /\ LET isMyTeam == subTarget[1].side = "me"
         currentLineup == IF isMyTeam THEN initialMyLineup ELSE initialOpLineup
         isLibero == subTarget[1].pos = LIBERO
         newLiberoVal == IF isLibero THEN subNumber ELSE UNDEFINED
         newLineup == IF isLibero THEN currentLineup
                      ELSE [currentLineup EXCEPT ![subTarget[1].pos] = subNumber]
     IN onGameAction("handleSubConfirm", subTarget[1].side, 0, NULL, NoRec, NoRec,
                     <<[isMyTeam |-> isMyTeam, newLineup |-> newLineup,
                        newLibero |-> newLiberoVal]>>,
                     NULL)
  /\ showSubModal' = FALSE /\ subTarget' = NoRec /\ subNumber' = subNumber
  /\ UNCHANGED <<flowVars, traceVars, pressVars, courtVars, courtRev, setup>>

handleSubConfirm ==
  /\ showSubModal /\ subTarget # NoRec
  /\ IF Trim(subNumber) = ""
     THEN /\ showSubModal' = FALSE
          /\ UNCHANGED <<subNumber, subTarget, unloggedOps>>
          /\ NoGameAction("handleSubConfirm")
     ELSE /\ unloggedOps' = [unloggedOps EXCEPT ![subTarget[1].side] = @ + 1]
          /\ LET isMyTeam == subTarget[1].side = "me"
                 currentLineup == IF isMyTeam THEN initialMyLineup ELSE initialOpLineup
                 isLibero == subTarget[1].pos = LIBERO
                 newLiberoVal == IF isLibero THEN subNumber ELSE UNDEFINED
                 newLineup == IF isLibero THEN currentLineup
                              ELSE [currentLineup EXCEPT ![subTarget[1].pos] = subNumber]
             IN onGameAction("handleSubConfirm", subTarget[1].side, 0, NULL, NoRec, NoRec,
                             <<[isMyTeam |-> isMyTeam, newLineup |-> newLineup,
                                newLibero |-> newLiberoVal]>>,
                             NULL)
          /\ showSubModal' = FALSE /\ subTarget' = NoRec /\ subNumber' = subNumber
  /\ UNCHANGED <<flowVars, traceVars, pressVars, courtVars, courtRev, setup>>

\* ------------------------------------------------ Court pointer handlers
\* onDrawingComplete is the GameView's handleDrawingComplete applied to
\* the normalized endpoints.
onDrawingComplete(start, end, by) ==
  handleDrawingComplete(normalize(start), normalize(end), by)

\* Variant: the start point is hit-tested before the end point.
handlePointerDownStartFirst(pt) ==
  /\ NoGameAction("handlePointerDown")
  /\ UNCHANGED <<subVars, pressVars, courtRev, setup, unloggedOps>>
  /\ IF state # "DRAWING" /\ state # "RESULT_PENDING"
     THEN UNCHANGED <<flowVars, traceVars, courtVars>>
     ELSE IF startPos # NoPoint /\ getDistanceSq(pt, startPos) < HIT_RADIUS_SQ
     THEN dragMode' = "start" /\ UNCHANGED <<flowVars, traceVars, startPos, endPos>>
     ELSE IF endPos # NoPoint /\ getDistanceSq(pt, endPos) < HIT_RADIUS_SQ
     THEN dragMode' = "end" /\ UNCHANGED <<flowVars, traceVars, startPos, endPos>>
     ELSE /\ dragMode' = "end"
          /\ endPos' = pt
          /\ startPos' = startPos
          /\ IF courtRev = "part_000" /\ startPos # NoPoint
             THEN onDrawingComplete(startPos, pt, "down")
             ELSE UNCHANGED <<flowVars, traceVars>>

handlePointerDown(pt) ==
  /\ NoGameAction("handlePointerDown")
  /\ UNCHANGED <<subVars, pressVars, courtRev, setup, unloggedOps>>
  /\ IF state # "DRAWING" /\ state # "RESULT_PENDING"
     THEN UNCHANGED <<flowVars, traceVars, courtVars>>
     ELSE IF endPos # NoPoint /\ getDistanceSq(pt, endPos) < HIT_RADIUS_SQ
     THEN dragMode' = "end" /\ UNCHANGED <<flowVars, traceVars, startPos, endPos>>
     ELSE IF startPos # NoPoint /\ getDistanceSq(pt, startPos) < HIT_RADIUS_SQ
     THEN dragMode' = "start" /\ UNCHANGED <<flowVars, traceVars, startPos, endPos>>
     ELSE /\ dragMode' = "end"
          /\ endPos' = pt
          /\ startPos' = startPos
          /\ IF courtRev = "part_000" /\ startPos # NoPoint
             THEN onDrawingComplete(startPos, pt, "down")
             ELSE UNCHANGED <<flowVars, traceVars>>

\* Variant: every move of a drag reports the trajectory, in both revisions.
handlePointerMoveReports(pt) ==
  /\ NoGameAction("handlePointerMove")
  /\ UNCHANGED <<subVars, pressVars, courtRev, setup, unloggedOps, dragMode>>
  /\ IF dragMode = NULL
     THEN UNCHANGED <<flowVars, traceVars, startPos, endPos>>
     ELSE IF dragMode = "start"
     THEN /\ startPos' = pt /\ endPos' = endPos
          /\ IF endPos # NoPoint
             THEN onDrawingComplete(pt, endPos, "move")
             ELSE UNCHANGED <<flowVars, traceVars>>
     ELSE /\ endPos' = pt /\ startPos' = startPos
          /\ IF startPos # NoPoint
             THEN onDrawingComplete(startPos, pt, "move")
             ELSE UNCHANGED <<flowVars, traceVars>>

handlePointerMove(pt) ==
  /\ NoGameAction("handlePointerMove")
  /\ UNCHANGED <<subVars, pressVars, courtRev, setup, unloggedOps, dragMode>>
  /\ IF dragMode = NULL
     THEN UNCHANGED <<flowVars, traceVars, startPos, endPos>>
     ELSE IF dragMode = "start"
     THEN /\ startPos' = pt /\ endPos' = endPos
          /\ IF courtRev = "part_000" /\ endPos # NoPoint
             THEN onDrawingComplete(pt, endPos, "move")
             ELSE UNCHANGED <<flowVars, traceVars>>
     ELSE /\ endPos' = pt /\ startPos' = startPos
          /\ IF courtRev = "part_000" /\ startPos # NoPoint
             THEN onDrawingComplete(startPos, pt, "move")
             ELSE UNCHANGED <<flowVars, traceVars>>

handlePointerUp ==
  /\ NoGameAction("handlePointerUp")
  /\ UNCHANGED <<subVars, pressVars, courtRev, setup, unloggedOps>>
  /\ dragMode' = NULL
  /\ UNCHANGED <<startPos, endPos>>
  /\ IF courtRev = "Court.tsx" /\ startPos # NoPoint /\ endPos # NoPoint
     THEN onDrawingComplete(startPos, endPos, "up")
     ELSE UNCHANGED <<flowVars, traceVars>>

\* ------------------------------------------------------------ environment
\* Full-screen overlays take every new press: the action modal's backdrop
\* while PLAYER_SELECTED, the substitution modal while it is shown.
SubOpen == showSubModal /\ subTarget # NoRec
Occluded == state = "PLAYER_SELECTED" \/ SubOpen

\* held is the set of surfaces a pointer is currently pressed on.
\*
\* Spec: an operator working with one pointer, who draws only when asked
\* to, who completes a substitution request with a number and who uses
\* the header buttons and the substitution between captures.  A press is
\* released where it started before anything else is touched.
PressDown ==
  /\ held = {} /\ ~Occluded
  /\ \E item \in SidebarItems : handlePlayerDown(item[1], item[2])
  /\ held' = {"sidebar"} /\ UNCHANGED inputVars

LongPress ==
  /\ held = {"sidebar"} /\ state = "IDLE"
  /\ Unlogged < MaxUnlogged /\ Len(logs) + Unlogged < MaxOps
  /\ TimerFire
  /\ held' = held /\ UNCHANGED inputVars

PressUp ==
  /\ held = {"sidebar"} /\ longPressTimer # NoRec
  /\ handlePlayerUp(longPressTimer[1].side, longPressTimer[1].pos)
  /\ held' = {} /\ UNCHANGED inputVars

ChooseAction ==
  /\ held = {} /\ ~SubOpen
  /\ \E action \in LedgerActions : handleActionSelect(action)
  /\ held' = held /\ UNCHANGED inputVars

CancelTap ==
  /\ held = {} /\ ~SubOpen
  /\ Cancel
  /\ held' = held /\ UNCHANGED inputVars

CourtDown ==
  /\ held = {} /\ ~Occluded /\ state = "DRAWING"
  /\ \E pt \in LedgerPts : handlePointerDown(pt)
  /\ held' = {"court"} /\ UNCHANGED inputVars

CourtUp ==
  /\ held = {"court"}
  /\ handlePointerUp
  /\ held' = {} /\ UNCHANGED inputVars

Outcome ==
  /\ held = {} /\ ~SubOpen
  /\ rejectsOutcome \/ Len(logs) + Unlogged < MaxOps
  /\ \E result \in ResultType : handleResult(result)
  /\ held' = held /\ UNCHANGED inputVars

ManualRotate ==
  /\ held = {} /\ ~SubOpen /\ state = "IDLE"
  /\ Unlogged < MaxUnlogged /\ Len(logs) + Unlogged < MaxOps
  /\ \E isMyTeam \in BOOLEAN : handleRotation(isMyTeam)
  /\ held' = held /\ UNCHANGED inputVars

ManualAdjust ==
  /\ held = {} /\ ~SubOpen /\ state = "IDLE"
  /\ Len(logs) + Unlogged < MaxOps
  /\ \E isMyTeam \in BOOLEAN, delta \in {1, -1} : handleScoreAdjust(isMyTeam, delta)
  /\ held' = held /\ UNCHANGED inputVars

SubType ==
  /\ held = {} /\ subNumber = ""
  /\ \E v \in SubNumbers : TypeSubNumber(v)
  /\ held' = held /\ UNCHANGED inputVars

SubConfirm ==
  /\ held = {} /\ subNumber # ""
  /\ handleSubConfirm
  /\ held' = held /\ UNCHANGED inputVars

Next ==
  \/ PressDown
  \/ LongPress
  \/ PressUp
  \/ ChooseAction
  \/ CancelTap
  \/ CourtDown
  \/ CourtUp
  \/ Outcome
  \/ ManualRotate
  \/ ManualAdjust
  \/ SubType
  \/ SubConfirm

Spec == Init /\ [][Next]_vars

\* SpecFlow: two hands.  One touch on the sidebar and one on the court may
\* be held at the same time and buttons are tapped meanwhile; a mouse
\* pointer may also leave the court without being pressed.  Both revisions
\* of the Court are covered.
InitFlow == GameInit(CourtRevisions, {"me"}, {ScenarioLineup})

TouchDown ==
  /\ "sidebar" \notin held /\ ~Occluded
  /\ \E item \in SidebarItems : handlePlayerDown(item[1], item[2])
  /\ held' = held \cup {"sidebar"} /\ UNCHANGED inputVars

TouchTimer ==
  /\ "sidebar" \in held
  /\ TimerFire
  /\ held' = held /\ UNCHANGED inputVars

TouchUp ==
  /\ "sidebar" \in held /\ longPressTimer # NoRec
  /\ handlePlayerUp(longPressTimer[1].side, longPressTimer[1].pos)
  /\ held' = held \ {"sidebar"} /\ UNCHANGED inputVars

TouchAction ==
  /\ ~SubOpen
  /\ \E action \in FlowActions : handleActionSelect(action)
  /\ held' = held /\ UNCHANGED inputVars

TouchCancel ==
  /\ ~SubOpen
  /\ Cancel
  /\ held' = held /\ UNCHANGED inputVars

TouchCourtDown ==
  /\ "court" \notin held /\ ~Occluded
  /\ \E pt \in FlowPts : handlePointerDown(pt)
  /\ held' = held \cup {"court"} /\ UNCHANGED inputVars

TouchCourtMove ==
  /\ "court" \in held
  /\ \E pt \in FlowPts : handlePointerMove(pt)
  /\ held' = held /\ UNCHANGED inputVars

TouchCourtUp ==
  /\ "court" \in held
  /\ handlePointerUp
  /\ held' = held \ {"court"} /\ UNCHANGED inputVars

CourtLeave ==
  /\ "court" \notin held /\ ~Occluded
  /\ handlePointerUp
  /\ held' = held /\ UNCHANGED inputVars

TouchOutcome ==
  /\ ~SubOpen
  /\ rejectsOutcome \/ Len(logs) < MaxFlowLogs
  /\ \E result \in ResultType : handleResult(result)
  /\ held' = held /\ UNCHANGED inputVars

TouchAdjust ==
  /\ ~Occluded
  /\ Len(logs) < MaxFlowLogs
  /\ \E isMyTeam \in BOOLEAN, delta \in {1, -1} : handleScoreAdjust(isMyTeam, delta)
  /\ held' = held /\ UNCHANGED inputVars

TouchSubDismiss ==
  /\ SubCancel
  /\ held' = held /\ UNCHANGED inputVars

NextFlow ==
  \/ TouchDown
  \/ TouchTimer
  \/ TouchUp
  \/ TouchAction
  \/ TouchCancel
  \/ TouchCourtDown
  \/ TouchCourtMove
  \/ TouchCourtUp
  \/ CourtLeave
  \/ TouchOutcome
  \/ TouchAdjust
  \/ TouchSubDismiss

SpecFlow == InitFlow /\ [][NextFlow]_vars

\* SpecRot: the Rotation Engine on its own.  The home lineup is drawn from
\* every assignment of two identifiers to the six slots (up to renaming
\* the two) and from lineups of six distinct identifiers.  A team is rotated by its manual rotation
\* button, or automatically when a manual +1 gives it the serve.
RotIds == {"4", "5"}
RotLineups ==
  {l \in [Slots -> RotIds] : l["1"] = "4"} \cup {ScenarioLineup, GuestLineup}

RECURSIVE ServeChanges(_, _, _)
\* Number of entries of log lg whose serving snapshot passes the serve to
\* side, prev being the serving team before the first entry.
ServeChanges(side, lg, prev) ==
  IF lg = <<>> THEN 0
  ELSE (IF Head(lg).servingTeam = side /\ prev # side THEN 1 ELSE 0)
       + ServeChanges(side, Tail(lg), Head(lg).servingTeam)

\* Rotations applied to a side so far: manual ones and serve changes.
RotCount(side) == unloggedOps[side] + ServeChanges(side, logs, setup.firstServe)

InitRot == GameInit({"Court.tsx"}, {"op"}, RotLineups)

RotateButton ==
  /\ \E isMyTeam \in BOOLEAN :
       /\ RotCount(IF isMyTeam THEN "me" ELSE "op") < MaxRotations
       /\ handleRotation(isMyTeam)
  /\ held' = held /\ UNCHANGED inputVars

RotateByServe ==
  /\ Len(logs) < MaxRotLogs
  /\ \E isMyTeam \in BOOLEAN :
       /\ RotCount(IF isMyTeam THEN "me" ELSE "op") < MaxRotations
       /\ handleScoreAdjust(isMyTeam, 1)
  /\ held' = held /\ UNCHANGED inputVars

NextRot ==
  \/ RotateButton
  \/ RotateByServe

SpecRot == InitRot /\ [][NextRot]_vars

\* SpecCourt: the trajectory capture on its own, one pointer, both
\* revisions of the Court.  The operator selects a player and an action and
\* then presses, drags and releases on the court, near the endpoints and
\* away from them; no outcome is logged.
InitCourt == GameInit(CourtRevisions, {"me"}, {ScenarioLineup})

CourtAction ==
  /\ held = {} /\ ~SubOpen
  /\ \E action \in FlowActions : handleActionSelect(action)
  /\ held' = held /\ UNCHANGED inputVars

CourtPress ==
  /\ held = {} /\ ~Occluded
  /\ \E pt \in CourtPts : handlePointerDown(pt) /\ lastPt' = pt
  /\ held' = {"court"} /\ gest' = gest /\ UNCHANGED asideVars

CourtDrag ==
  /\ held = {"court"}
  /\ \E pt \in CourtPts : handlePointerMove(pt)
  /\ held' = held /\ UNCHANGED inputVars

CourtRelease ==
  /\ held = {"court"}
  /\ handlePointerUp
  /\ held' = {} /\ UNCHANGED inputVars

NextCourt ==
  \/ PressDown
  \/ PressUp
  \/ CourtAction
  \/ CancelTap
  \/ CourtPress
  \/ CourtDrag
  \/ CourtRelease
  \/ CourtLeave

SpecCourt == InitCourt /\ [][NextCourt]_vars

\* SpecPress: press gestures on the sidebar, several fingers.  A gesture is
\* a touch-start on an item and the touch-end of the same touch (delivered
\* to the item whatever is shown meanwhile); gestures on different items
\* may overlap.  All timers run for 1.5 s, so they fire in the order in
\* which they were armed.  gest counts, per item, the gestures begun and
\* ended, the selections and substitution requests they led to, and the
\* gestures released while their own timer was still pending.
TimerItem(t) == <<t.side, t.pos>>

PendingFor(item) ==
  \/ /\ longPressTimer # NoRec /\ ~longPressTimer[1].fired
     /\ TimerItem(longPressTimer[1]) = item
  \/ \E k \in DOMAIN orphanTimers : TimerItem(orphanTimers[k]) = item

InitPress == GameInit({"Court.tsx"}, {"me"}, {ScenarioLineup})

PressStart ==
  /\ ~Occluded
  /\ \E item \in SidebarItems :
       /\ gest[item].downs = gest[item].ups /\ gest[item].downs < MaxPresses
       /\ handlePlayerDown(item[1], item[2])
       /\ gest' = [gest EXCEPT ![item].downs = @ + 1]
  /\ held' = held /\ lastPt' = lastPt /\ UNCHANGED asideVars

PressTimer ==
  /\ orphanTimers = <<>>
  /\ TimerFire
  /\ gest' = [gest EXCEPT ![TimerItem(longPressTimer[1])].subs = @ + 1]
  /\ held' = held /\ lastPt' = lastPt /\ UNCHANGED asideVars

PressOrphanTimer ==
  /\ OrphanTimerFire
  /\ gest' = [gest EXCEPT ![TimerItem(Head(orphanTimers))].subs = @ + 1]
  /\ held' = held /\ lastPt' = lastPt /\ UNCHANGED asideVars

PressEnd ==
  /\ \E item \in SidebarItems :
       /\ gest[item].downs > gest[item].ups
       /\ handlePlayerUp(item[1], item[2])
       /\ gest' = [gest EXCEPT
                     ![item].ups = @ + 1,
                     ![item].selects = IF ~isLongPress THEN @ + 1 ELSE @,
                     ![item].early = IF PendingFor(item) THEN @ + 1 ELSE @]
  /\ held' = held /\ lastPt' = lastPt /\ UNCHANGED asideVars

PressCancel ==
  /\ ~SubOpen
  /\ Cancel
  /\ held' = held /\ UNCHANGED inputVars

NextPress ==
  \/ PressStart
  \/ PressTimer
  \/ PressOrphanTimer
  \/ PressEnd
  \/ PressCancel
  \/ TouchSubDismiss

SpecPress == InitPress /\ [][NextPress]_vars

\* ------------------------------------------------------------ persistence
\* The kinds of content of a save slot other than the JSON text of a
\* saved game: no item, the empty string, text that is not JSON, the JSON
\* text null, a JSON number, a JSON object without state and config.
Malformed == {"missing", "empty", "garbage", "jsonNull", "jsonNumber", "jsonNoState"}

saveObject ==
  [config |-> [myName |-> myName, opName |-> opName],
   state |-> [currentSet |-> currentSet,
              myLineup |-> initialMyLineup, opLineup |-> initialOpLineup,
              myLibero |-> initialMyLibero, opLibero |-> initialOpLibero,
              myScore |-> myScore, opScore |-> opScore,
              servingTeam |-> servingTeam, logs |-> logs]]

\* The owner takes a saved state back on load, replacing the snapshot.
ApplyLoadGame(st) ==
  /\ initialMyLineup' = st.myLineup /\ initialOpLineup' = st.opLineup
  /\ initialMyLibero' = st.myLibero /\ initialOpLibero' = st.opLibero
  /\ myScore' = st.myScore /\ opScore' = st.opScore
  /\ servingTeam' = st.servingTeam /\ logs' = st.logs

restVars == <<flowVars, subVars, pressVars, courtVars, courtRev,
              lastCall, afterPrevEvent, setup, unloggedOps, held, progress, stage,
              completedBy, picked, gest, lastPt, fnVars, formVars>>

\* localStorage.setItem either stores the text or throws.
handleConfirmSave(key, quotaExceeded) ==
  /\ IF quotaExceeded
     THEN notice' = "saveFailed" /\ storage' = storage
     ELSE notice' = "saved" /\ storage' = [storage EXCEPT ![key] = [kind |-> "saved", game |-> <<saveObject>>]]
  /\ UNCHANGED <<snapVars, restVars, loaded>>

\* getItem gives null for a missing item; JSON.parse throws on text that
\* is not JSON; reading .state of null throws; of a number or of an
\* object without it, it gives undefined.  What the owner does with an
\* undefined state is not part of these sources: the call is recorded,
\* with <<>> for an undefined argument.
handleLoadFile(key) ==
  LET data == storage[key].kind
      parsed == storage[key].game[1]
  IN IF data \in {"missing", "empty"}
     THEN UNCHANGED <<snapVars, restVars, storeVars>>
     ELSE IF data \in {"garbage", "jsonNull"}
     THEN /\ notice' = "loadFailed"
          /\ UNCHANGED <<snapVars, restVars, storage, loaded>>
     ELSE IF data \in {"jsonNumber", "jsonNoState"}
     THEN /\ loaded' = <<[key |-> key, state |-> <<>>, config |-> <<>>]>>
          /\ UNCHANGED <<snapVars, restVars, storage, notice>>
     ELSE /\ loaded' = <<[key |-> key, state |-> <<parsed.state>>, config |-> <<parsed.config>>]>>
          /\ ApplyLoadGame(parsed.state)
          /\ UNCHANGED <<restVars, storage, notice>>

\* SpecStore: save and load between manual score adjustments; the save
\* slots hold whatever the browser's storage holds when the game is
\* mounted.
InitStore ==
  /\ GameMount({"Court.tsx"}, {"me"}, {ScenarioLineup})
  /\ fnArg = NoRec /\ fnRes = NoRec /\ form = NoRec /\ started = NoRec
  /\ storage \in [SaveKeys -> {Stored(k) : k \in Malformed}]

Save ==
  \E key \in SaveKeys, quotaExceeded \in BOOLEAN : handleConfirmSave(key, quotaExceeded)

Load ==
  \E key \in SaveKeys : handleLoadFile(key)

NextStore ==
  \/ TouchAdjust
  \/ Save
  \/ Load

SpecStore == InitStore /\ [][NextStore]_vars

\* SpecLineup: the operations that reach the lineups.  One pointer;
\* captures, manual adjustments and rotations at any time outside the
\* modals; the substitution field is filled with a number or a blank and
\* confirmed, or the modal is cancelled.
SubEntries == {" ", "9"}

InitLineup == GameInit({"Court.tsx"}, {"me"}, {ScenarioLineup})

LineupLongPress ==
  /\ held = {"sidebar"}
  /\ TimerFire
  /\ held' = held /\ UNCHANGED inputVars

LineupOutcome ==
  /\ held = {} /\ ~SubOpen
  /\ rejectsOutcome \/ Len(logs) + Unlogged < MaxLineupOps
  /\ \E result \in ResultType : handleResult(result)
  /\ held' = held /\ UNCHANGED inputVars

LineupRotate ==
  /\ held = {} /\ ~Occluded
  /\ Len(logs) + Unlogged < MaxLineupOps
  /\ \E isMyTeam \in BOOLEAN : handleRotation(isMyTeam)
  /\ held' = held /\ UNCHANGED inputVars

LineupAdjust ==
  /\ held = {} /\ ~Occluded
  /\ Len(logs) + Unlogged < MaxLineupOps
  /\ \E isMyTeam \in BOOLEAN, delta \in {1, -1} : handleScoreAdjust(isMyTeam, delta)
  /\ held' = held /\ UNCHANGED inputVars

LineupSubType ==
  /\ held = {}
  /\ \E v \in SubEntries : TypeSubNumber(v)
  /\ held' = held /\ UNCHANGED inputVars

LineupSubConfirm ==
  /\ held = {}
  /\ Trim(subNumber) = "" \/ Len(logs) + Unlogged < MaxLineupOps
  /\ handleSubConfirm
  /\ held' = held /\ UNCHANGED inputVars

LineupSubCancel ==
  /\ held = {}
  /\ SubCancel
  /\ held' = held /\ UNCHANGED inputVars

NextLineup ==
  \/ PressDown
  \/ LineupLongPress
  \/ PressUp
  \/ ChooseAction
  \/ CancelTap
  \/ CourtDown
  \/ CourtUp
  \/ LineupOutcome
  \/ LineupRotate
  \/ LineupAdjust
  \/ LineupSubType
  \/ LineupSubConfirm
  \/ LineupSubCancel

SpecLineup == InitLineup /\ [][NextLineup]_vars

\* SpecSub: substitutions on their own.  The number typed into the modal
\* is one a player of the team already wears or a new one.
TypedNumbers == {"4", "9"}

SubTypeNumber ==
  /\ held = {}
  /\ \E v \in TypedNumbers : TypeSubNumber(v)
  /\ held' = held /\ UNCHANGED inputVars

NextSub ==
  \/ PressDown
  \/ LineupLongPress
  \/ PressUp
  \/ CancelTap
  \/ LineupRotate
  \/ SubTypeNumber
  \/ LineupSubConfirm
  \/ LineupSubCancel

SpecSub == InitLineup /\ [][NextSub]_vars

\* The game itself: everything but asideVars.
gameVars == <<flowVars, subVars, pressVars, courtVars, courtRev, snapVars,
              lastCall, afterPrevEvent, setup, unloggedOps, held, progress, stage,
              completedBy, picked, gest, lastPt>>

\* ------------------------------------------------------------- setup form
\* A field value is a sequence of characters, '' being <<>>.
\* sanitizeInput: keep the digits, cut to two, refuse a leading zero.
Digits == {"0", "1", "2", "3", "4", "5", "6", "7", "8", "9"}
Invalid == <<"invalid">>
sanitizeInput(value) ==
  LET numericValue == SelectSeq(value, LAMBDA ch : ch \in Digits)
      cut == IF Len(numericValue) > 2 THEN SubSeq(numericValue, 1, 2) ELSE numericValue
  IN IF Len(cut) > 0 /\ cut[1] = "0" THEN Invalid ELSE cut

\* Variant: the Libero is left out of the duplicate check.
getDuplicatesNoLibero(lineup, libero) ==
  {n \in {lineup[p] : p \in Slots} \ {<<>>} :
     Cardinality({p \in Slots : lineup[p] = n}) > 1}

getDuplicates(lineup, libero) ==
  {n \in ({lineup[p] : p \in Slots} \cup {libero}) \ {<<>>} :
     Cardinality({p \in Slots : lineup[p] = n}) + (IF libero = n THEN 1 ELSE 0) > 1}

hasEmptyFields(lineup) == \E p \in Slots : lineup[p] = <<>>

\* The validation effect: the message shown for the four fields.
validate(f) ==
  IF hasEmptyFields(f.myLineup) THEN "myEmpty"
  ELSE IF hasEmptyFields(f.opLineup) THEN "opEmpty"
  ELSE IF getDuplicates(f.myLineup, f.myLibero) # {} THEN "myDups"
  ELSE IF getDuplicates(f.opLineup, f.opLibero) # {} THEN "opDups"
  ELSE NULL

Revalidate(f) == [f EXCEPT !.errorMsg = validate(f)]

EmptyLineup == [p \in Slots |-> <<>>]
TestMyLineup == [p \in Slots |-> <<p>>]
TestOpLineup == [p \in Slots |-> <<"1", p>>]

\* What is typed into a field, the slots that are edited, and the team
\* names entered.
RawInputs == {<<>>, <<"5">>, <<"1", "1">>, <<"0", "5">>, <<"1", "a", "2">>, <<"1", "2", "3">>}
EditedSlots == {"1"}
NameInputs == {"", " ", "A"}
DefaultMyName == "My team"
DefaultOpName == "Opponent"

\* SpecSetup: the setup form, mounted empty or with lineups handed in, the
\* validation effect having run.
InitSetup ==
  /\ GameMount({"Court.tsx"}, {"me"}, {ScenarioLineup})
  /\ fnArg = NoRec /\ fnRes = NoRec /\ started = NoRec
  /\ storage = [k \in SaveKeys |-> Stored("missing")]
  /\ \E my \in {EmptyLineup, TestMyLineup}, op \in {EmptyLineup, TestOpLineup} :
       form = <<Revalidate([myLineup |-> my, opLineup |-> op,
                            myLibero |-> <<>>, opLibero |-> <<>>,
                            myName |-> "", opName |-> "", firstServe |-> "me",
                            errorMsg |-> NULL])>>

handlePlayerChange(isMyTeam, pos, value) ==
  /\ started = NoRec
  /\ LET val == sanitizeInput(value)
     IN IF val = Invalid THEN form' = form
        ELSE IF isMyTeam
        THEN form' = <<Revalidate([form[1] EXCEPT !.myLineup[pos] = val])>>
        ELSE form' = <<Revalidate([form[1] EXCEPT !.opLineup[pos] = val])>>
  /\ UNCHANGED <<gameVars, fnVars, storeVars, started>>

handleLiberoChange(isMyTeam, value) ==
  /\ started = NoRec
  /\ LET val == sanitizeInput(value)
     IN IF val = Invalid THEN form' = form
        ELSE IF isMyTeam
        THEN form' = <<Revalidate([form[1] EXCEPT !.myLibero = val])>>
        ELSE form' = <<Revalidate([form[1] EXCEPT !.opLibero = val])>>
  /\ UNCHANGED <<gameVars, fnVars, storeVars, started>>

handleTestFill ==
  /\ started = NoRec
  /\ form' = <<Revalidate([form[1] EXCEPT !.myName = "Home", !.opName = "Guest",
                                          !.myLineup = TestMyLineup,
                                          !.opLineup = TestOpLineup,
                                          !.myLibero = <<"9", "9">>,
                                          !.opLibero = <<"8", "8">>])>>
  /\ UNCHANGED <<gameVars, fnVars, storeVars, started>>

setTeamName(isMyTeam, name) ==
  /\ started = NoRec
  /\ form' = IF isMyTeam THEN <<[form[1] EXCEPT !.myName = name]>>
                          ELSE <<[form[1] EXCEPT !.opName = name]>>
  /\ UNCHANGED <<gameVars, fnVars, storeVars, started>>

setFirstServe(side) ==
  /\ started = NoRec
  /\ form' = <<[form[1] EXCEPT !.firstServe = side]>>
  /\ UNCHANGED <<gameVars, fnVars, storeVars, started>>

\* The start button (disabled while a message is shown).
startGame ==
  /\ started = NoRec
  /\ form[1].errorMsg = NULL
  /\ LET finalMyName == IF Trim(form[1].myName) = "" THEN DefaultMyName ELSE Trim(form[1].myName)
         finalOpName == IF Trim(form[1].opName) = "" THEN DefaultOpName ELSE Trim(form[1].opName)
     IN started' = <<[myName |-> finalMyName, opName |-> finalOpName,
                      myLineup |-> form[1].myLineup, opLineup |-> form[1].opLineup,
                      myLibero |-> form[1].myLibero, opLibero |-> form[1].opLibero,
                      firstServe |-> form[1].firstServe]>>
  /\ UNCHANGED <<gameVars, fnVars, storeVars, form>>

TypeSlot ==
  \E isMyTeam \in BOOLEAN, pos \in EditedSlots, value \in RawInputs :
    handlePlayerChange(isMyTeam, pos, value)

TypeLibero ==
  \E isMyTeam \in BOOLEAN, value \in RawInputs : handleLiberoChange(isMyTeam, value)

TypeName ==
  \E isMyTeam \in BOOLEAN, name \in NameInputs : setTeamName(isMyTeam, name)

PickFirstServe ==
  \E side \in Sides : setFirstServe(side)

NextSetup ==
  \/ TypeSlot
  \/ TypeLibero
  \/ TypeName
  \/ PickFirstServe
  \/ handleTestFill
  \/ startGame

SpecSetup == InitSetup /\ [][NextSetup]_vars

\* SpecAnchor: getPositionCenter on its own, for every side, every slot
\* and the Libero, every selected action or none, with and without
\* ignoreAction, in both revisions of the Court.
AnchorArgs ==
  [side : Sides, pos : Positions, action : ActionType \cup {NULL}, ignoreAction : BOOLEAN]

InitAnchor ==
  /\ GameMount(CourtRevisions, {"me"}, {ScenarioLineup})
  /\ fnArg \in AnchorArgs /\ fnRes = NoRec
  /\ form = NoRec /\ started = NoRec
  /\ storage = [k \in SaveKeys |-> Stored("missing")]

PositionCenter ==
  /\ fnRes = NoRec
  /\ fnRes' = <<getPositionCenter(courtRev, fnArg.side, fnArg.pos,
                                  fnArg.ignoreAction, fnArg.action)>>
  /\ UNCHANGED <<gameVars, formVars, storeVars, fnArg>>

NextAnchor ==
  \/ PositionCenter

SpecAnchor == InitAnchor /\ [][NextAnchor]_vars

\* --------------------------------------------------------- stats overlay
\* Of a log entry the statistics read playerNumber, action, result and
\* note.  The overlay is mounted with the props logs and teamConfig and
\* holds the state activeTab and selectedPlayer; fnArg holds these four
\* and, as history, the side each entry was captured for; fnRes holds
\* what a render derives from them.
getTeamLogs(lg, teamConfig, side) ==
  LET logTeam(l) == IF l.note = teamConfig.myName THEN "me" ELSE "op"
  IN SelectSeq(lg, LAMBDA l : logTeam(l) = side)

getPlayerLogs(lg, teamConfig, playerNum, side) ==
  SelectSeq(getTeamLogs(lg, teamConfig, side), LAMBDA l : l.playerNumber = playerNum)

NoStats ==
  [attackKills |-> 0, attackTotal |-> 0, blocks |-> 0, serveAces |-> 0,
   serveErrors |-> 0, digs |-> 0, totalPoints |-> 0]

Inc(b) == IF b THEN 1 ELSE 0

\* Variant: every block is counted, whatever its outcome.
RECURSIVE countStatsAllBlocks(_, _)
countStatsAllBlocks(filteredLogs, stats) ==
  IF filteredLogs = <<>> THEN stats
  ELSE LET l == Head(filteredLogs)
       IN countStatsAllBlocks(Tail(filteredLogs),
            [stats EXCEPT
               !.attackTotal = @ + Inc(l.action = ATTACK),
               !.attackKills = @ + Inc(l.action = ATTACK /\ l.result = POINT),
               !.blocks = @ + Inc(l.action = BLOCK),
               !.serveAces = @ + Inc(l.action = SERVE /\ l.result = POINT),
               !.serveErrors = @ + Inc(l.action = SERVE /\ l.result = ERROR),
               !.digs = @ + Inc(l.action = DIG)])

\* The forEach of calculateStats: one entry after the other.
RECURSIVE countStats(_, _)
countStats(filteredLogs, stats) ==
  IF filteredLogs = <<>> THEN stats
  ELSE LET l == Head(filteredLogs)
       IN countStats(Tail(filteredLogs),
            [stats EXCEPT
               !.attackTotal = @ + Inc(l.action = ATTACK),
               !.attackKills = @ + Inc(l.action = ATTACK /\ l.result = POINT),
               !.blocks = @ + Inc(l.action = BLOCK /\ l.result = POINT),
               !.serveAces = @ + Inc(l.action = SERVE /\ l.result = POINT),
               !.serveErrors = @ + Inc(l.action = SERVE /\ l.result = ERROR),
               !.digs = @ + Inc(l.action = DIG)])

calculateStats(filteredLogs) ==
  LET stats == countStats(filteredLogs, NoStats)
  IN [stats EXCEPT !.totalPoints = stats.attackKills + stats.blocks + stats.serveAces]

\* Math.round(q) for a quotient q = n/d of naturals, d > 0.
Round(n, d) == (2 * n + d) \div (2 * d)

\* The attack-rate rows: the number shown before the percent sign.
attackRate(stats) ==
  IF stats.attackTotal > 0
  THEN Round(stats.attackKills * 100, stats.attackTotal)
  ELSE 0

\* parseInt of a player number; NaN is <<>>.
PlayerNumbers == {"2", "7", "10"}
parseInt(p) ==
  CASE p = "2" -> <<2>> [] p = "7" -> <<7>> [] p = "10" -> <<10>> [] OTHER -> <<>>

\* The orders Array.sort may give the distinct player numbers of a team:
\* ascending by parseInt; the comparator gives NaN for a number that does
\* not parse, which leaves its place to the implementation.
SeqToSet(q) == {q[i] : i \in DOMAIN q}
Arrangements(S) ==
  {q \in [1..Cardinality(S) -> S] : SeqToSet(q) = S}
sortedPlayers(teamLogs) ==
  LET S == {teamLogs[i].playerNumber : i \in DOMAIN teamLogs}
  IN {q \in Arrangements(S) :
        \A i, j \in DOMAIN q :
          (i < j /\ parseInt(q[i]) # <<>> /\ parseInt(q[j]) # <<>>)
            => parseInt(q[i])[1] < parseInt(q[j])[1]}

\* Variant: a later player of equal points goes first.
RECURSIVE insertByPointsUnstable(_, _)
insertByPointsUnstable(x, sorted) ==
  IF sorted = <<>> THEN <<x>>
  ELSE IF Head(sorted).points > x.points
       THEN <<Head(sorted)>> \o insertByPointsUnstable(x, Tail(sorted))
       ELSE <<x>> \o sorted

\* Array.sort by points, descending; the sort is stable.
RECURSIVE insertByPoints(_, _)
insertByPoints(x, sorted) ==
  IF sorted = <<>> THEN <<x>>
  ELSE IF Head(sorted).points >= x.points
       THEN <<Head(sorted)>> \o insertByPoints(x, Tail(sorted))
       ELSE <<x>> \o sorted

RECURSIVE sortByPoints(_)
sortByPoints(playerPoints) ==
  IF playerPoints = <<>> THEN <<>>
  ELSE insertByPoints(playerPoints[Len(playerPoints)],
                      sortByPoints(SubSeq(playerPoints, 1, Len(playerPoints) - 1)))

activePlayersList(teamLogs, players) ==
  LET playerPoints ==
        [i \in DOMAIN players |->
           [number |-> players[i],
            points |-> calculateStats(
               SelectSeq(teamLogs, LAMBDA l : l.playerNumber = players[i])).totalPoints]]
      sortedByPoints == sortByPoints(playerPoints)
      top(k) == IF Len(sortedByPoints) >= k /\ sortedByPoints[k].points > 0
                THEN sortedByPoints[k].number ELSE NULL
  IN [players |-> players, top1 |-> top(1), top2 |-> top(2)]

\* Whether a player is selected: null and the empty player number of a
\* manual entry are both falsy.
Selected(a) == a.selectedPlayer \notin {NULL, ""}

\* What one render of the overlay derives.
Derived(a, players) ==
  LET myTeamStats == calculateStats(getTeamLogs(a.logs, a.teamConfig, "me"))
      opTeamStats == calculateStats(getTeamLogs(a.logs, a.teamConfig, "op"))
      currentPlayerStats ==
        IF Selected(a)
        THEN <<calculateStats(getPlayerLogs(a.logs, a.teamConfig, a.selectedPlayer, a.activeTab))>>
        ELSE NoRec
  IN [myTeamStats |-> myTeamStats, opTeamStats |-> opTeamStats,
      myRate |-> attackRate(myTeamStats), opRate |-> attackRate(opTeamStats),
      currentPlayerStats |-> currentPlayerStats,
      playerRate |-> IF currentPlayerStats = NoRec THEN NoRec
                     ELSE <<attackRate(currentPlayerStats[1])>>,
      list |-> activePlayersList(getTeamLogs(a.logs, a.teamConfig, a.activeTab), players)]

\* The entries handleResult and handleScoreAdjust append, cut down to the
\* fields the statistics read.
resultEntry(teamConfig, side, playerNumber, action, result) ==
  [playerNumber |-> playerNumber, action |-> action, result |-> result,
   note |-> IF side = "me" THEN teamConfig.myName ELSE teamConfig.opName]

adjustEntry(delta) ==
  [playerNumber |-> "", action |-> ATTACK,
   result |-> IF delta > 0 THEN POINT ELSE NORMAL,
   note |-> IF delta > 0 THEN "Manual Adjust +1" ELSE "Manual Adjust -1"]

\* A capture: an outcome tapped for a side's player, or a manual score
\* adjustment (playerNumber "" and no action).
Capture(kind, side, playerNumber, action, result, delta) ==
  [kind |-> kind, side |-> side, playerNumber |-> playerNumber,
   action |-> action, result |-> result, delta |-> delta]

entryOf(teamConfig, c) ==
  IF c.kind = "adjust" THEN adjustEntry(c.delta)
  ELSE resultEntry(teamConfig, c.side, c.playerNumber, c.action, c.result)

MaxStatLogs == 3
MaxTeamLogs == 2
MaxRankLogs == 4

\* Every outcome of the four counted actions, by one player of one team.
StatCaptures ==
  {Capture("result", "me", "7", a, r, 0) : a \in {ATTACK, BLOCK, SERVE, DIG}, r \in ResultType}

\* A kill by either team and the four manual adjustments.
TeamCaptures ==
  {Capture("result", sd, "7", ATTACK, POINT, 0) : sd \in Sides}
    \cup {Capture("adjust", sd, "", NULL, NULL, dl) : sd \in Sides, dl \in {1, -1}}

\* Kills and failed attacks of three players of one team.
RankCaptures ==
  {Capture("result", "me", p, ATTACK, r, 0) : p \in PlayerNumbers, r \in {POINT, ERROR}}

\* The team names startGame hands over for the names typed.
TeamConfigs ==
  {[myName |-> IF Trim(m) = "" THEN DefaultMyName ELSE Trim(m),
    opName |-> IF Trim(o) = "" THEN DefaultOpName ELSE Trim(o)] : m, o \in NameInputs}

SeqsUpTo(S, n) == UNION {[1..k -> S] : k \in 0..n}

Mounted(captures, teamConfig) ==
  [logs |-> [i \in DOMAIN captures |-> entryOf(teamConfig, captures[i])],
   teamConfig |-> teamConfig,
   captured |-> captures,
   activeTab |-> "me", selectedPlayer |-> NULL]

\* SpecStats: the overlay mounted on a log, rendered, its tabs and player
\* buttons pressed.
InitStats ==
  /\ GameMount({"Court.tsx"}, {"me"}, {ScenarioLineup})
  /\ form = NoRec /\ started = NoRec
  /\ storage = [k \in SaveKeys |-> Stored("missing")]
  /\ fnRes = NoRec
  /\ \/ \E cs \in SeqsUpTo(StatCaptures, MaxStatLogs) :
          fnArg = <<Mounted(cs, [myName |-> myName, opName |-> opName])>>
     \/ \E cs \in SeqsUpTo(TeamCaptures, MaxTeamLogs), cfg \in TeamConfigs :
          fnArg = <<Mounted(cs, cfg)>>
     \/ \E cs \in SeqsUpTo(RankCaptures, MaxRankLogs) :
          fnArg = <<Mounted(cs, [myName |-> myName, opName |-> opName])>>

Render(a) ==
  /\ fnArg' = <<a>>
  /\ \E players \in sortedPlayers(getTeamLogs(a.logs, a.teamConfig, a.activeTab)) :
       fnRes' = <<Derived(a, players)>>
  /\ UNCHANGED <<gameVars, formVars, storeVars>>

FirstRender ==
  /\ fnRes = NoRec
  /\ Render(fnArg[1])

setActiveTab(side) ==
  /\ fnRes # NoRec /\ ~Selected(fnArg[1])
  /\ Render([fnArg[1] EXCEPT !.activeTab = side])

setSelectedPlayer(p) ==
  /\ fnRes # NoRec
  /\ Render([fnArg[1] EXCEPT !.selectedPlayer = p])

PickTab ==
  \E side \in Sides : setActiveTab(side)

PickPlayer ==
  /\ fnRes # NoRec /\ ~Selected(fnArg[1])
  /\ \E i \in DOMAIN fnRes[1].list.players : setSelectedPlayer(fnRes[1].list.players[i])

BackToTeam ==
  /\ fnRes # NoRec /\ Selected(fnArg[1])
  /\ setSelectedPlayer(NULL)

NextStats ==
  \/ FirstRender
  \/ PickTab
  \/ PickPlayer
  \/ BackToTeam

SpecStats == InitStats /\ [][NextStats]_vars

\* ------------------------------------------------------------ shot chart
\* The chart's court is 200 by 100 units (100 by 200 in portrait); chart
\* positions are in ninths of a unit, as percentages are in ninths of a
\* percent.
Orientations == {"landscape", "portrait"}

\* Variant: the axes are not swapped in portrait.
mapXLandscape(orientation, percentX, percentY) == percentX * 2

mapX(orientation, percentX, percentY) ==
  IF orientation = "portrait" THEN percentY ELSE percentX * 2

mapY(orientation, percentX, percentY) ==
  IF orientation = "portrait" THEN percentX * 2 ELSE percentY

\* The logical points of the court, in half units.
MaxChartX == 36
MaxChartY == 18
ChartPts == (0..MaxChartX) \X (0..MaxChartY)

\* SpecChart: a point of the court is normalized for the log and plotted
\* by the shot chart in either orientation.
InitChart ==
  /\ GameMount({"Court.tsx"}, {"me"}, {ScenarioLineup})
  /\ form = NoRec /\ started = NoRec
  /\ storage = [k \in SaveKeys |-> Stored("missing")]
  /\ fnRes = NoRec
  /\ \E pt \in ChartPts, o \in Orientations :
       fnArg = <<[pt |-> pt, orientation |-> o]>>

Normalize ==
  /\ fnRes = NoRec
  /\ fnRes' = <<[coord |-> normalize(fnArg[1].pt), plotted |-> NoPoint]>>
  /\ UNCHANGED <<gameVars, formVars, storeVars, fnArg>>

Plot ==
  /\ fnRes # NoRec /\ fnRes[1].plotted = NoPoint
  /\ LET c == fnRes[1].coord
         o == fnArg[1].orientation
     IN fnRes' = <<[fnRes[1] EXCEPT !.plotted = <<mapX(o, c[1], c[2]), mapY(o, c[1], c[2])>>]>>
  /\ UNCHANGED <<gameVars, formVars, storeVars, fnArg>>

NextChart ==
  \/ Normalize
  \/ Plot

SpecChart == InitChart /\ [][NextChart]_vars

\* ================================================================= claims
Committed == "newLog" \in DOMAIN lastCall /\ lastCall.newLog # NoRec
OneTo(s) == <<[myDelta |-> IF s = "me" THEN 1 ELSE 0,
               opDelta |-> IF s = "op" THEN 1 ELSE 0]>>
Distinct(l) == \A p, q \in Slots : p # q => l[p] # l[q]

\* C1: an outcome selection gives a score delta of +1 to the acting side
\* and 0 to the other for Point, +1 to the opposing side and 0 to the
\* acting side for Error, and emits no score delta for Normal.
C1_OutcomeScoreDelta ==
  (lastCall.op = "handleResult" /\ Committed) =>
    LET acting == lastCall.side
        su == lastCall.scoreUpdate
    IN /\ lastCall.arg = POINT => su = OneTo(acting)
       /\ lastCall.arg = ERROR => su = OneTo(Other(acting))
       /\ lastCall.arg = NORMAL => su = NoRec

C1_Witness ==
  /\ lastCall.op = "handleResult" /\ Committed
  /\ lastCall.arg = ERROR /\ lastCall.side = "op"
  /\ lastCall.scoreUpdate = OneTo("me")

\* C2: after a Point or Error outcome, if the point-winning side (acting
\* side for Point, opposing side for Error) differed from the serving team
\* then it now serves and its lineup is rotate(its lineup before);
\* otherwise the serving team and its lineup are as before.  The other
\* side's lineup and both Liberos are as before in both cases.
C2_ServeTransfer ==
  (lastCall.op = "handleResult" /\ Committed /\ lastCall.arg \in {POINT, ERROR}) =>
    LET w == IF lastCall.arg = POINT THEN lastCall.side ELSE Other(lastCall.side)
    IN /\ IF w # lastCall.preServing
          THEN /\ servingTeam = w
               /\ Lineup(w) = getRotatedLineup(lastCall.preLineup[w])
          ELSE /\ servingTeam = lastCall.preServing
               /\ Lineup(w) = lastCall.preLineup[w]
       /\ Lineup(Other(w)) = lastCall.preLineup[Other(w)]
       /\ Libero("me") = lastCall.preLibero.me
       /\ Libero("op") = lastCall.preLibero.op

C2_Witness ==
  /\ lastCall.op = "handleResult" /\ Committed
  /\ lastCall.arg = ERROR /\ lastCall.side = "me" /\ lastCall.preServing = "me"
  /\ servingTeam = "op" /\ initialOpLineup["1"] = lastCall.preLineup.op["2"]

\* C3: in every snapshot, a manual adjustment awarding a point to side s
\* computes the same score delta, serving-team update and lineup update as
\* a captured outcome whose point-winning side is s.
C3_AdjustMatchesCapture ==
  \A s \in Sides : \A acting \in Sides : \A r \in {POINT, ERROR} :
    ((IF r = POINT THEN acting ELSE Other(acting)) = s) =>
      LET a == adjustDeltas(s = "me", 1)
          d == resultDeltas(r, acting = "me")
      IN /\ a.scoreUpdate = d.scoreUpdate
         /\ a.newServingTeam = d.newServingTeam
         /\ a.lineupUpdate = d.lineupUpdate

C3_Witness ==
  /\ lastCall.op = "handleScoreAdjust" /\ lastCall.arg = 1
  /\ lastCall.lineupUpdate # NoRec /\ Len(logs) = 2
  /\ servingTeam = "me"

\* The side whose score an event raised.
ScoredBy(ev, pre) ==
  IF ev.myScore > pre.me THEN "me" ELSE IF ev.opScore > pre.op THEN "op" ELSE NULL

\* Serving-team snapshot of the logged event before the last one.
PrevLoggedServing ==
  IF Len(logs) >= 2 THEN logs[Len(logs) - 1].servingTeam ELSE setup.firstServe

\* C4 as stated: for a logged Point or Error event that has a predecessor,
\* the winner's lineup after it is rotate(its lineup after the previous
\* event) if the winner differs from the previous event's serving
\* snapshot, and that previous lineup otherwise.
C4_Original ==
  (Committed /\ Len(logs) >= 2 /\ lastCall.newLog[1].result \in {POINT, ERROR}) =>
    LET w == ScoredBy(lastCall.newLog[1], lastCall.preScore)
    IN IF w # PrevLoggedServing
       THEN Lineup(w) = getRotatedLineup(lastCall.prevEvent[w])
       ELSE Lineup(w) = lastCall.prevEvent[w]

\* C4: for every logged Point or Error event, the serving team when it is
\* emitted is the serving snapshot of the previous logged event (the first
\* server if there is none), and the winner's lineup after the event is
\* rotate(its lineup immediately before the event) if the winner differs
\* from that serving team, and its lineup immediately before otherwise.
C4_ServeInvariant ==
  (Committed /\ lastCall.newLog[1].result \in {POINT, ERROR}) =>
    LET w == ScoredBy(lastCall.newLog[1], lastCall.preScore)
    IN /\ w \in Sides
       /\ lastCall.preServing = PrevLoggedServing
       /\ IF w # PrevLoggedServing
          THEN Lineup(w) = getRotatedLineup(lastCall.preLineup[w])
          ELSE Lineup(w) = lastCall.preLineup[w]

C4_Witness ==
  /\ Committed /\ Len(logs) = 2
  /\ lastCall.newLog[1].result = ERROR
  /\ lastCall.preLineup # lastCall.prevEvent
  /\ lastCall.servingTeamUpdate # NULL

\* The four transitions of the capture cycle.
CycleTransitions ==
  {<<"IDLE", "PLAYER_SELECTED">>, <<"PLAYER_SELECTED", "DRAWING">>,
   <<"DRAWING", "RESULT_PENDING">>, <<"RESULT_PENDING", "IDLE">>}

\* Transitions outside the cycle: cancelling the action modal, selecting a
\* player during a capture, and a trajectory report reaching the GameView
\* after a re-selection.
ExtraTransitions ==
  {<<"PLAYER_SELECTED", "IDLE">>, <<"DRAWING", "PLAYER_SELECTED">>,
   <<"RESULT_PENDING", "PLAYER_SELECTED">>, <<"PLAYER_SELECTED", "RESULT_PENDING">>}

C7_CancelledCapture ==
  [][lastCall'.op \in {"none", "Cancel"} =>
       /\ snapVars' = snapVars
       /\ lastCall'.op = "Cancel" =>
            /\ state' = "IDLE" /\ selectedPos' = NULL /\ selectedAction' = NULL
            /\ startCoord' = NoPoint /\ endCoord' = NoPoint]_vars

C7_Witness ==
  /\ lastCall.op = "Cancel" /\ lastCall.progress = 3
  /\ state = "IDLE" /\ logs = <<>>

\* C8: a lineup rotated a multiple of six times, by the rotation button
\* or by gaining the serve, is the original lineup; rotated any other
\* number of times it differs from the original when the six identifiers
\* are distinct; no rotation changes either Libero.
C8_RotationOrder ==
  \A side \in Sides :
    LET n == RotCount(side) IN
    /\ n % 6 = 0 => Lineup(side) = setup[side]
    /\ (n % 6 # 0 /\ Distinct(setup[side])) => Lineup(side) # setup[side]
    /\ initialMyLibero = setup.myLibero /\ initialOpLibero = setup.opLibero
    /\ ("lineupUpdate" \in DOMAIN lastCall /\ lastCall.lineupUpdate # NoRec)
         => lastCall.lineupUpdate[1].newLibero = UNDEFINED

C8_Witness ==
  /\ RotCount("me") = 6 /\ unloggedOps.me = 5 /\ Distinct(setup.me)
  /\ initialMyLineup = setup.me /\ lastCall.op = "handleRotation"

\* C9: the lineup produced by a rotation is new[1]=old[2], new[2]=old[3],
\* new[3]=old[4], new[4]=old[5], new[5]=old[6], new[6]=old[1]; it has all
\* six slots and holds each identifier as many times as the old lineup.
C9_RotationRelabeling ==
  ("lineupUpdate" \in DOMAIN lastCall /\ lastCall.lineupUpdate # NoRec) =>
    LET old == lastCall.preLineup[IF lastCall.lineupUpdate[1].isMyTeam THEN "me" ELSE "op"]
        new == lastCall.lineupUpdate[1].newLineup
    IN /\ DOMAIN new = Slots
       /\ new["1"] = old["2"] /\ new["2"] = old["3"] /\ new["3"] = old["4"]
       /\ new["4"] = old["5"] /\ new["5"] = old["6"] /\ new["6"] = old["1"]
       /\ \A p \in Slots :
            Cardinality({q \in Slots : new[q] = old[p]})
              = Cardinality({q \in Slots : old[q] = old[p]})

C9_Witness ==
  /\ lastCall.op = "handleRotation" /\ lastCall.side = "me"
  /\ lastCall.preLineup.me = ScenarioLineup
  /\ initialMyLineup["6"] = "5" /\ initialMyLineup["1"] = "4"

RECURSIVE RotateN(_, _)
\* n rotations of lineup l.
RotateN(l, n) == IF n = 0 THEN l ELSE RotateN(getRotatedLineup(l), n - 1)

\* What the log alone yields from the initial snapshot: the scores and the
\* serving team of its last entry, each lineup rotated once per entry that
\* gave that side the serve, the Liberos of the setup.
ReplayScore(side) ==
  IF logs = <<>> THEN 0
  ELSE IF side = "me" THEN logs[Len(logs)].myScore ELSE logs[Len(logs)].opScore
ReplayServing == IF logs = <<>> THEN setup.firstServe ELSE logs[Len(logs)].servingTeam
ReplayLineup(side) == RotateN(setup[side], ServeChanges(side, logs, setup.firstServe))

\* C10 as stated: scores, serving team, lineups and Liberos are the ones
\* the initial snapshot and the event log yield.
C10_Original ==
  /\ myScore = ReplayScore("me") /\ opScore = ReplayScore("op")
  /\ servingTeam = ReplayServing
  /\ initialMyLineup = ReplayLineup("me") /\ initialOpLineup = ReplayLineup("op")
  /\ initialMyLibero = setup.myLibero /\ initialOpLibero = setup.opLibero

\* C10: the scores and the serving team are always the ones the initial
\* snapshot and the event log yield; the lineups and Liberos are the ones
\* they yield as long as no manual rotation and no substitution, which
\* leave no entry in the log, has been applied.
C10_LogDetermines ==
  /\ myScore = ReplayScore("me") /\ opScore = ReplayScore("op")
  /\ servingTeam = ReplayServing
  /\ Unlogged = 0 =>
       /\ initialMyLineup = ReplayLineup("me") /\ initialOpLineup = ReplayLineup("op")
       /\ initialMyLibero = setup.myLibero /\ initialOpLibero = setup.opLibero

C10_Witness ==
  /\ Unlogged = 0 /\ Len(logs) = 2 /\ myScore = 1 /\ opScore = 1
  /\ initialMyLineup # setup.me /\ initialOpLineup # setup.op

\* A step in which the Court reports a trajectory to the GameView.
Notifies ==
  /\ state' = "RESULT_PENDING"
  /\ <<state', startCoord', endCoord', completedBy'>>
       # <<state, startCoord, endCoord, completedBy>>

C12_Original ==
  \A item \in SidebarItems :
    /\ gest[item].selects + gest[item].subs <= gest[item].downs
    /\ (gest[item].ups = gest[item].downs /\ ~PendingFor(item))
         => gest[item].selects + gest[item].subs = gest[item].downs

\* C13 as stated: a gesture released before its own timer has fired raises
\* no substitution request afterwards and selects the player.
C13_Original ==
  \A item \in SidebarItems :
    /\ gest[item].subs <= gest[item].downs - gest[item].early
    /\ gest[item].selects >= gest[item].early

\* C14: an outcome request made while no slot is selected or no action is
\* chosen is rejected: handleResult makes no onGameAction call, so no event
\* and no delta is emitted, and the snapshot and the capture stay as they
\* are.
C14_RejectedOutcome ==
  [][(lastCall'.op = "handleResult" /\ (selectedPos = NULL \/ selectedAction = NULL))
       => /\ "newLog" \notin DOMAIN lastCall'
          /\ UNCHANGED <<snapVars, flowVars>>]_vars

C14_Witness ==
  /\ lastCall.op = "handleResult" /\ "newLog" \notin DOMAIN lastCall
  /\ state = "RESULT_PENDING" /\ selectedPos # NULL /\ selectedAction = NULL
  /\ logs = <<>>

\* C15 as stated: inputs that do not match the current state are ignored:
\* handleResult runs in RESULT_PENDING only, and a pointer-down or a
\* pointer-up on the court (a step that presses or releases the court)
\* in IDLE or PLAYER_SELECTED leaves the interaction state, the capture
\* data and the snapshot unchanged.
C15_Original ==
  [][/\ lastCall'.op = "handleResult" => state = "RESULT_PENDING"
     /\ (/\ ("court" \in held) # ("court" \in held')
         /\ state \in {"IDLE", "PLAYER_SELECTED"})
        => UNCHANGED <<flowVars, snapVars>>]_vars

\* C16 as stated: whenever the interaction state is IDLE, the selected
\* slot, the action and the stored start/end coordinates are empty and the
\* Court's candidate start and end points are cleared.
C16_Original ==
  state = "IDLE" =>
    /\ selectedPos = NULL /\ selectedAction = NULL
    /\ startCoord = NoPoint /\ endCoord = NoPoint
    /\ startPos = NoPoint /\ endPos = NoPoint

\* A Coordinate within [0, 100] x [0, 100], a logical point on the 18 x 9
\* court, and the percentages of a logical point.
InRange(c) == 0 <= c[1] /\ c[1] <= 900 /\ 0 <= c[2] /\ c[2] <= 900
OnCourt(p) == 0 <= p[1] /\ p[1] <= 36 /\ 0 <= p[2] /\ p[2] <= 18
Percent(p) == <<(p[1] * 100 * 9) \div 36, (p[2] * 100 * 9) \div 18>>

C18_BothCoordinates ==
  (Committed /\ lastCall.op = "handleResult") =>
    /\ lastCall.newLog[1].startCoord # NoPoint /\ Len(lastCall.newLog[1].startCoord) = 2
    /\ lastCall.newLog[1].endCoord # NoPoint /\ Len(lastCall.newLog[1].endCoord) = 2

C18_Witness ==
  /\ Committed /\ lastCall.op = "handleResult" /\ courtRev = "part_000"
  /\ lastCall.newLog[1].action = ATTACK
  /\ lastCall.newLog[1].startCoord = <<750, 450>>
  /\ lastCall.newLog[1].endCoord = Percent(PMargin)
  /\ logs = <<lastCall.newLog[1]>>

\* C19: the score snapshot (myScore, opScore) of every emitted event, from
\* a capture or from a manual adjustment, is the score shown when the
\* event was emitted plus the event's own score delta.
C19_ScoreSnapshot ==
  Committed =>
    LET ev == lastCall.newLog[1]
        myDelta == IF lastCall.scoreUpdate # NoRec THEN lastCall.scoreUpdate[1].myDelta ELSE 0
        opDelta == IF lastCall.scoreUpdate # NoRec THEN lastCall.scoreUpdate[1].opDelta ELSE 0
    IN /\ ev.myScore = lastCall.preScore.me + myDelta
       /\ ev.opScore = lastCall.preScore.op + opDelta

C19_Witness ==
  /\ Committed /\ lastCall.op = "handleResult" /\ lastCall.arg = ERROR
  /\ lastCall.side = "me" /\ lastCall.preScore = [me |-> 1, op |-> 0]
  /\ lastCall.newLog[1].myScore = 1 /\ lastCall.newLog[1].opScore = 1
  /\ Len(logs) = 2 /\ logs[1].note = "Manual Adjust +1"

\* Strictly within 1.5 logical units: 1.5 units are 3 half units.
Within(p, q) ==
  q # NoPoint /\ (p[1] - q[1]) * (p[1] - q[1]) + (p[2] - q[2]) * (p[2] - q[2]) < 3 * 3

\* C20: in DRAWING or RESULT_PENDING a pointer-down strictly within the hit
\* radius of an endpoint grabs that endpoint and places or moves no point;
\* within the radius of both, the end point is grabbed whichever is
\* closer; only a pointer-down outside both radii places a new end point.
C20_HitTest ==
  [][("court" \notin held /\ "court" \in held'
        /\ state \in {"DRAWING", "RESULT_PENDING"})
       => LET pt == lastPt'
          IN IF Within(pt, endPos)
             THEN dragMode' = "end" /\ UNCHANGED <<startPos, endPos>>
             ELSE IF Within(pt, startPos)
             THEN dragMode' = "start" /\ UNCHANGED <<startPos, endPos>>
             ELSE dragMode' = "end" /\ endPos' = pt /\ startPos' = startPos]_vars

\* Pressed within both radii, nearer to the start point: the end point,
\* which lies exactly on the radius of the start point, is grabbed.
C20_Witness ==
  /\ state = "RESULT_PENDING" /\ held = {"court"} /\ lastPt = PNearBoth
  /\ startPos = <<6, 15>> /\ endPos = POnRadius /\ dragMode = "end"
  /\ endCoord = normalize(POnRadius)

\* The fixed grid centre of a slot, in half units: the home team's 3 x 2
\* grid left of the net, the guests' mirrored through the court centre.
GridCentre(side, slot) ==
  LET me == CASE slot = "4" -> <<15, 3>> [] slot = "3" -> <<15, 9>>
              [] slot = "2" -> <<15, 15>> [] slot = "5" -> <<6, 3>>
              [] slot = "6" -> <<6, 9>> [] slot = "1" -> <<6, 15>>
  IN IF side = "me" THEN me ELSE <<36 - me[1], 18 - me[2]>>

\* C21: on every entry to DRAWING the start point is the zone centre of
\* the selected side and slot (slot 6 for the Libero); for a Serve its x
\* is outside the court on the team's own side (below 0 for the home
\* team, above 18 for the guests) with y unchanged, and for every other
\* action the start point is the centre itself, inside the court.
C21_StartSeed ==
  [][(state' = "DRAWING" /\ state # "DRAWING")
       => LET slot == IF selectedPos' = LIBERO THEN "6" ELSE selectedPos'
              c == GridCentre(activeSide', slot)
          IN /\ startPos' # NoPoint
             /\ startPos'[2] = c[2]
             /\ IF selectedAction' = SERVE
                THEN IF activeSide' = "me" THEN startPos'[1] < 0 ELSE startPos'[1] > 36
                ELSE startPos' = c /\ OnCourt(startPos')]_vars

C21_Witness ==
  /\ state = "DRAWING" /\ activeSide = "op" /\ selectedPos = LIBERO
  /\ selectedAction = SERVE /\ startPos = <<40, 9>> /\ courtRev = "part_000"

\* C22: with ignoreAction the anchor never carries the serve offset: for
\* every side, slot and selected action it is the fixed grid centre inside
\* the court, the guests' centre of slot k being the home centre of slot k
\* mirrored through the court centre; the twelve anchors are pairwise
\* distinct.
C22_LabelAnchors ==
  (fnRes # NoRec /\ fnArg.ignoreAction) =>
    /\ fnRes[1] = GridCentre(fnArg.side, IF fnArg.pos = LIBERO THEN "6" ELSE fnArg.pos)
    /\ OnCourt(fnRes[1])
    /\ \A s1, s2 \in Sides, p1, p2 \in Slots :
         <<s1, p1>> # <<s2, p2>>
           => getPositionCenter(courtRev, s1, p1, TRUE, fnArg.action)
                # getPositionCenter(courtRev, s2, p2, TRUE, fnArg.action)
    /\ \A p \in Slots :
         LET me == getPositionCenter(courtRev, "me", p, TRUE, fnArg.action)
             op == getPositionCenter(courtRev, "op", p, TRUE, fnArg.action)
         IN op = <<36 - me[1], 18 - me[2]>>

C22_Witness ==
  /\ fnRes = << <<21, 15>> >> /\ fnArg.side = "op" /\ fnArg.pos = "4"
  /\ fnArg.action = SERVE /\ fnArg.ignoreAction

\* All six slots filled and no identifier twice among the six slots and
\* the Libero.
ValidTeam(lineup, libero) ==
  /\ \A p \in Slots : lineup[p] # <<>>
  /\ \A p, q \in Slots : p # q => lineup[p] # lineup[q]
  /\ \A p \in Slots : lineup[p] # libero

\* C23: onStart is called only with lineups in which, for each team, all
\* six slots are non-empty and no identifier occurs twice within the six
\* slots plus the Libero.
C23_ValidHandoff ==
  started # NoRec =>
    /\ ValidTeam(started[1].myLineup, started[1].myLibero)
    /\ ValidTeam(started[1].opLineup, started[1].opLibero)

C23_Witness ==
  /\ started # NoRec
  /\ started[1].myLineup["1"] = <<"1", "2">> /\ started[1].myLibero = <<"1", "1">>
  /\ started[1].opLineup["1"] = <<"5">> /\ started[1].opLibero = <<>>

\* C24: after any sequence of captured outcomes, manual adjustments,
\* manual rotations and confirmed or cancelled substitutions, both lineups
\* have all six slots populated with a non-empty identifier.
C24_SixSlots ==
  /\ DOMAIN initialMyLineup = Slots /\ DOMAIN initialOpLineup = Slots
  /\ \A p \in Slots :
       /\ initialMyLineup[p] \notin {"", " ", NULL, UNDEFINED}
       /\ initialOpLineup[p] \notin {"", " ", NULL, UNDEFINED}

C24_Witness ==
  /\ initialMyLineup["1"] = "9" /\ initialOpLineup["6"] = "11"
  /\ Len(logs) = 1 /\ unloggedOps.me = 1 /\ subNumber = " " /\ ~showSubModal
  /\ subTarget # NoRec

\* C25 as stated: a persistence failure leaves the snapshot unchanged:
\* onLoadGame is invoked only for a slot holding a well-formed saved game,
\* and a failed write changes nothing of the snapshot.
C25_Original ==
  [][/\ loaded' # loaded => storage[loaded'[1].key].kind \notin Malformed
     /\ (notice' = "saveFailed" /\ notice' # notice) => UNCHANGED snapVars]_vars

\* The number of entries of a log with an action and, if given, an outcome.
Count(lg, action, results) ==
  Cardinality({i \in DOMAIN lg : lg[i].action = action /\ lg[i].result \in results})

CountsAgree(lg, st) ==
  /\ st.attackTotal = Count(lg, ATTACK, ResultType)
  /\ st.attackKills = Count(lg, ATTACK, {POINT})
  /\ st.blocks = Count(lg, BLOCK, {POINT})
  /\ st.serveAces = Count(lg, SERVE, {POINT})
  /\ st.serveErrors = Count(lg, SERVE, {ERROR})
  /\ st.digs = Count(lg, DIG, ResultType)
  /\ st.totalPoints = st.attackKills + st.blocks + st.serveAces

\* The summaries of a render agree with the counts over their entries.
RenderCounts ==
  LET a == fnArg[1]
      r == fnRes[1]
  IN /\ CountsAgree(getTeamLogs(a.logs, a.teamConfig, "me"), r.myTeamStats)
     /\ CountsAgree(getTeamLogs(a.logs, a.teamConfig, "op"), r.opTeamStats)
     /\ r.currentPlayerStats # NoRec =>
          CountsAgree(getPlayerLogs(a.logs, a.teamConfig, a.selectedPlayer, a.activeTab),
                      r.currentPlayerStats[1])

\* The rates shown by a render, each with its summary.
ShownRates ==
  LET r == fnRes[1]
  IN {<<r.myTeamStats, r.myRate>>, <<r.opTeamStats, r.opRate>>}
       \cup (IF r.currentPlayerStats = NoRec THEN {}
             ELSE {<<r.currentPlayerStats[1], r.playerRate[1]>>})

CapturedFor(a, side) ==
  LET idx == {i \in DOMAIN a.logs : a.captured[i].side = side}
      RECURSIVE pick(_)
      pick(i) == IF i > Len(a.logs) THEN <<>>
                 ELSE (IF i \in idx THEN <<a.logs[i]>> ELSE <<>>) \o pick(i + 1)
  IN pick(1)

\* C27 as stated: the log is partitioned by team: every entry is counted
\* in exactly one team's summary, and an entry captured for a side's
\* player is counted in that side's summary and not in the other's,
\* whatever team names the setup form handed over.
C27_Original ==
  (fnRes # NoRec /\ \A i \in DOMAIN fnArg[1].captured : fnArg[1].captured[i].kind = "result") =>
    LET a == fnArg[1]
        r == fnRes[1]
    IN /\ Len(getTeamLogs(a.logs, a.teamConfig, "me"))
            + Len(getTeamLogs(a.logs, a.teamConfig, "op")) = Len(a.logs)
       /\ r.myTeamStats = calculateStats(CapturedFor(a, "me"))
       /\ r.opTeamStats = calculateStats(CapturedFor(a, "op"))

\* The mounted log without its last entry.
Before(a) ==
  [a EXCEPT !.logs = SubSeq(a.logs, 1, Len(a.logs) - 1),
            !.captured = SubSeq(a.captured, 1, Len(a.captured) - 1)]

\* C28 as stated: a manual score adjustment adds an entry without player,
\* action or trajectory: with it the overlay shows the same attack
\* attempts, kills, blocks, aces, serve errors, digs and total points for
\* both teams and for every player as without it, and no further player
\* in either team's player list.
C28_Original ==
  (/\ fnRes # NoRec /\ fnArg[1].logs # <<>>
   /\ fnArg[1].captured[Len(fnArg[1].captured)].kind = "adjust") =>
    LET a == fnArg[1]
        r == fnRes[1]
        b == Before(a)
    IN /\ r.myTeamStats = calculateStats(getTeamLogs(b.logs, b.teamConfig, "me"))
       /\ r.opTeamStats = calculateStats(getTeamLogs(b.logs, b.teamConfig, "op"))
       /\ r.currentPlayerStats # NoRec =>
            r.currentPlayerStats[1]
              = calculateStats(getPlayerLogs(b.logs, b.teamConfig, a.selectedPlayer, a.activeTab))
       /\ SeqToSet(r.list.players)
            = {l.playerNumber : l \in SeqToSet(getTeamLogs(b.logs, b.teamConfig, a.activeTab))}

\* The points a player has won in a team's entries.
Points(teamLogs, p) ==
  Cardinality({i \in DOMAIN teamLogs :
                 /\ teamLogs[i].playerNumber = p
                 /\ teamLogs[i].action \in {ATTACK, BLOCK, SERVE}
                 /\ teamLogs[i].result = POINT})

\* q is the first of the players of a list, x left out, with the most
\* points, and has won a point.
FirstBest(teamLogs, players, x, q) ==
  \E i \in DOMAIN players :
    /\ players[i] = q /\ q # x
    /\ Points(teamLogs, q) > 0
    /\ \A j \in DOMAIN players :
         players[j] # x =>
           /\ Points(teamLogs, players[j]) <= Points(teamLogs, q)
           /\ j < i => Points(teamLogs, players[j]) < Points(teamLogs, q)

\* C29: the top performer of the shown team has the most total points of
\* its players and the second the most among the rest; of players with
\* equal totals the one earlier in the player list is taken; the two are
\* distinct; a player without points is never highlighted, so that a
\* highlight is missing exactly when no such player is left.
C29_TopPerformers ==
  fnRes # NoRec =>
    LET a == fnArg[1]
        list == fnRes[1].list
        teamLogs == getTeamLogs(a.logs, a.teamConfig, a.activeTab)
        scorers == {q \in SeqToSet(list.players) : Points(teamLogs, q) > 0}
    IN /\ IF scorers = {} THEN list.top1 = NULL
          ELSE FirstBest(teamLogs, list.players, NULL, list.top1)
       /\ IF scorers \ {list.top1} = {} THEN list.top2 = NULL
          ELSE FirstBest(teamLogs, list.players, list.top1, list.top2)
       /\ list.top1 # NULL => list.top1 # list.top2

\* Player 7 leads with two kills; 2 and 10 have one each and 2, earlier in
\* the list, is second.
C29_Witness ==
  /\ fnRes # NoRec
  /\ fnRes[1].list = [players |-> <<"2", "7", "10">>, top1 |-> "7", top2 |-> "2"]
  /\ fnRes[1].myTeamStats.attackKills = 4

\* A plotted position equals num/den times the logical point (x, y):
\* positions are in ninths of a unit and points in half units.
ScaledBy(num, den, plotted, x, y) ==
  /\ 2 * den * plotted[1] = 9 * num * x
  /\ 2 * den * plotted[2] = 9 * num * y

C31_OneEventPerCapture ==
  [][(lastCall'.op = "handleResult" /\ selectedPos # NULL /\ selectedAction # NULL) =>
       /\ state = "RESULT_PENDING" /\ stage = 3
       /\ "newLog" \in DOMAIN lastCall' /\ lastCall'.newLog # NoRec
       /\ logs' = Append(logs, lastCall'.newLog[1])
       /\ state' = "IDLE" /\ selectedPos' = NULL /\ selectedAction' = NULL
       /\ stage' = 0]_vars

C31_Witness ==
  /\ lastCall.op = "handleResult" /\ Committed
  /\ lastCall.arg = POINT /\ Len(logs) = 1
  /\ state = "IDLE" /\ selectedPos = NULL /\ selectedAction = NULL /\ stage = 0

\* C32 as stated: the player identifier of a committed event is the
\* identifier of the player that stood on the selected slot, or was the
\* Libero, of the acting side when the player was selected, whatever
\* manual rotations, manual score adjustments and substitutions were made
\* between the selection and the outcome.
C32_Original ==
  [][(lastCall'.op = "handleResult" /\ Len(logs') > Len(logs)) =>
       logs'[Len(logs')].playerNumber = picked]_vars

\* C33 as stated: on every entry to Drawing the Court holds no candidate
\* end point, so that the end point committed with an event is one placed
\* during the same capture and never one left by an abandoned capture.
C33_Original ==
  [][(state' = "DRAWING" /\ state # "DRAWING") => endPos' = NoPoint]_vars

\* C34 as stated: whenever the interaction state is ResultPending the
\* selected slot, the selected action and the stored start and end
\* coordinates are all present.
C34_Original ==
  state = "RESULT_PENDING" =>
    /\ selectedPos # NULL /\ selectedAction # NULL
    /\ startCoord # NoPoint /\ endCoord # NoPoint

\* The side a call awards a point to: the acting side for a captured
\* Point, the other side for a captured Error, the adjusted side for a
\* manual +1; NULL for every other call.
Awarded(call) ==
  IF call.op = "handleResult" /\ "arg" \in DOMAIN call
  THEN (IF call.arg = POINT THEN call.side
        ELSE IF call.arg = ERROR THEN Other(call.side) ELSE NULL)
  ELSE IF call.op = "handleScoreAdjust" /\ call.arg > 0 THEN call.side
  ELSE NULL

\* C35: after every event that awards a point the serving team is the
\* side that won it, and the serving team changes in no other step:
\* Normal outcomes, manual -1, manual rotations, substitutions and the
\* inputs of a capture leave it as it is.
C35_ServeFollowsPoint ==
  [][/\ Awarded(lastCall') # NULL => servingTeam' = Awarded(lastCall')
     /\ Awarded(lastCall') = NULL => servingTeam' = servingTeam]_vars

\* An error of the serving side has passed the serve to the opponent.
C35_Witness ==
  /\ lastCall.op = "handleResult" /\ Committed
  /\ lastCall.arg = ERROR /\ lastCall.side = "me" /\ lastCall.preServing = "me"
  /\ servingTeam = "op" /\ logs[Len(logs)].servingTeam = "op"

\* C36: whenever the log is not empty, the running scores and the serving
\* team are the score snapshot and the serving-team snapshot of the last
\* logged event, after any captures, manual adjustments, rotations and
\* substitutions.
C36_LastEventSnapshot ==
  logs # <<>> =>
    /\ logs[Len(logs)].myScore = myScore
    /\ logs[Len(logs)].opScore = opScore
    /\ logs[Len(logs)].servingTeam = servingTeam

\* Two events, the second passing the serve, and a manual rotation made
\* after them.
C36_Witness ==
  /\ Len(logs) = 2 /\ lastCall.op = "handleRotation"
  /\ myScore = 1 /\ opScore = 1
  /\ logs[1].servingTeam = "me" /\ logs[2].servingTeam = "op" /\ servingTeam = "op"

\* C37 as stated: both running scores and the score snapshot of every
\* logged event are non-negative after any captured outcomes and manual
\* +1 / -1 adjustments.
C37_Original ==
  /\ myScore >= 0 /\ opScore >= 0
  /\ \A i \in DOMAIN logs : logs[i].myScore >= 0 /\ logs[i].opScore >= 0

\* No identifier occurs twice in a team's six slots and Libero.
NoDuplicate(lineup, libero) ==
  /\ \A p, q \in Slots : p # q => lineup[p] # lineup[q]
  /\ \A p \in Slots : lineup[p] # libero

\* C38 as stated: from a validated setup, after any in-game operations no
\* identifier occurs twice within one team's six slots and Libero; a
\* confirmed substitution never brings in an identifier the team already
\* has.
C38_Original ==
  /\ NoDuplicate(initialMyLineup, initialMyLibero)
  /\ NoDuplicate(initialOpLineup, initialOpLibero)

\* The timers set and neither fired nor cleared: the one the ref holds and
\* those the ref no longer holds.
Armed ==
  (IF longPressTimer # NoRec THEN 1 ELSE 0) + Len(orphanTimers)

\* C39 as stated: at most one long-press timer is armed at any time, so
\* that the timer of an earlier press cannot fire once a later press has
\* begun.
C39_Original ==
  Armed <= 1
====
